---- MODULE Spec2Model ----
(***************************************************************************)
(* Associative memory engine of digital-genesis: the graph store           *)
(* (core/graph/manager.py), the canonical store (core/ltm/manager.py,      *)
(* core/ltm/facts.py) and the claim pipeline (core/ltm/assets.py).         *)
(*                                                                         *)
(* Numbers: a similarity is an integer number of hundredths (0.85 is 85);  *)
(* a weight is an integer number of 1/20000 (similarity/100 times the      *)
(* modifier/200), so that the arithmetic of add_or_update_edge is exact.   *)
(***************************************************************************)
EXTENDS Integers, FiniteSets, Sequences, TLC

\* ------------------------------------------------------------------ bounds
MaxCalls == 3          \* graph-mutating coroutines alive at one time
MaxDirectCalls == 2    \* graph-mutating calls a caller issues directly in one run

\* --------------------------------------------------------------- constants
GRAPH_STRUCTURAL_THRESHOLD == 85
GRAPH_ASSOCIATIVE_THRESHOLD == 78
DefaultScore == 5

Free == 0              \* the lock is not held
SaveTask == 0 - 1      \* the save_graph coroutine as a lock holder

NodeIds == {"u1", "u2"}
CallIds == 1..MaxCalls

VARIABLES
  proc,       \* "down" | "up" | "fatal": the process and its GraphManager
  graph,      \* GraphManager.graph, the in-memory networkx graph
  lock,       \* GraphManager.lock: Free or the holder
  calls,      \* the add_or_update_edge / add_node_if_not_exists coroutines
  savePc,     \* position of the save_graph coroutine
  primary,    \* the file at graph_path
  backup,     \* the file at graph_path + ".bak"
  temp,       \* the file at graph_path + ".tmp"
  corrupted,  \* the file at graph_path + ".corrupted"
  hist,       \* history: the last load's outcome, the save a crash interrupted
  stream,     \* LTM_Manager.stream_collection: utterance records by id
  facts,      \* FactManager.facts_collection: fact documents by id
  modalities, \* FactManager.modalities_collection: modality records by id
  assets,     \* AssetExtractor.assets_collection: claim metadata by id
  ing,        \* the _add_to_stream coroutines
  ext,        \* the extract_and_process_assets coroutines
  uuids,      \* how many uuid4 values have been drawn
  clock,      \* time.time()
  handle,     \* AssetExtractor._concepts_model_instance, and how many were created
  refl,       \* the run_cycle coroutine of the ReflectionEngine
  searches,   \* how many messages handle_text_message has searched the memory for
  op,         \* the last call of a synchronous store operation and what it returned
  chat,       \* the handle_text_message coroutine and the user's entry in user_chats
  req         \* the request_with_retry coroutine and what its attempts did

storeVars == <<stream, facts, modalities, assets, ing, ext, uuids, clock, handle, refl, searches, op, chat, req>>

vars == <<proc, graph, lock, calls, savePc, primary, backup, temp, corrupted, hist, storeVars>>

\* ------------------------------------------------------------------ graphs
NoAttrs == [role |-> "", timestamp |-> 0]

EmptyEdges == [p \in {} |-> [type |-> "associative", max_similarity |-> 0,
                             shared_concepts_count |-> 0, cumulative_weight |-> 0]]

EmptyGraph == [nodes |-> [n \in {} |-> NoAttrs], edges |-> EmptyEdges]

\* dict.get(key, default) on a claim's metadata
Get(meta, key, default) == IF key \in DOMAIN meta THEN meta[key] ELSE default

\* an undirected edge is keyed by its unordered pair of endpoints
EdgeKey(n1, n2) == {n1, n2}

HasEdge(g, n1, n2) == EdgeKey(n1, n2) \in DOMAIN g.edges

HasNode(g, n) == n \in DOMAIN g.nodes

\* mutant: the scores of the metadata are ignored and the defaults are used
WeightModifierDefaults(m1, m2) ==
  (DefaultScore * DefaultScore) + (DefaultScore * DefaultScore)

\* ((imp1 * conf1) + (imp2 * conf2)), the numerator of weight_modifier
WeightModifier(m1, m2) ==
  (Get(m1, "importance", DefaultScore) * Get(m1, "confidence", DefaultScore))
  + (Get(m2, "importance", DefaultScore) * Get(m2, "confidence", DefaultScore))

FinalWeight(sim, m1, m2) == sim * WeightModifier(m1, m2)

\* mutant: the threshold itself counts as structural
LinkTypeAtOrAbove(sim) == IF sim >= GRAPH_STRUCTURAL_THRESHOLD THEN "structural" ELSE "associative"

\* link_type = 'structural' if similarity_score > GRAPH_STRUCTURAL_THRESHOLD else 'associative'
LinkType(sim) == IF sim > GRAPH_STRUCTURAL_THRESHOLD THEN "structural" ELSE "associative"

Max(x, y) == IF x >= y THEN x ELSE y

\* mutant: the update overwrites the weight instead of adding to it
UpdatedEdgeOverwrite(e, sim, w) ==
  [type |-> IF LinkType(sim) = "structural" /\ e.type = "associative"
            THEN "structural" ELSE e.type,
   max_similarity |-> Max(e.max_similarity, sim),
   shared_concepts_count |-> e.shared_concepts_count + 1,
   cumulative_weight |-> w]

\* mutant: the update recomputes the type from the call's similarity
UpdatedEdgeRetype(e, sim, w) ==
  [type |-> LinkType(sim),
   max_similarity |-> Max(e.max_similarity, sim),
   shared_concepts_count |-> e.shared_concepts_count + 1,
   cumulative_weight |-> e.cumulative_weight + w]

\* the branch of add_or_update_edge for an edge the graph has
UpdatedEdge(e, sim, w) ==
  [type |-> IF LinkType(sim) = "structural" /\ e.type = "associative"
            THEN "structural" ELSE e.type,
   max_similarity |-> Max(e.max_similarity, sim),
   shared_concepts_count |-> e.shared_concepts_count + 1,
   cumulative_weight |-> e.cumulative_weight + w]

\* the branch of add_or_update_edge for an edge the graph does not have
CreatedEdge(sim, w) ==
  [type |-> LinkType(sim), max_similarity |-> sim,
   shared_concepts_count |-> 1, cumulative_weight |-> w]

\* networkx add_edge also creates the endpoints it does not know
WithEndpoints(nodes, n1, n2) ==
  [n \in (DOMAIN nodes) \cup {n1, n2} |-> IF n \in DOMAIN nodes THEN nodes[n] ELSE NoAttrs]

\* the locked body of add_or_update_edge
AddOrUpdateEdge(g, n1, n2, sim, m1, m2) ==
  LET w == FinalWeight(sim, m1, m2)
      k == EdgeKey(n1, n2)
  IN IF HasEdge(g, n1, n2)
     THEN [g EXCEPT !.edges = [g.edges EXCEPT ![k] = UpdatedEdge(g.edges[k], sim, w)]]
     ELSE [nodes |-> WithEndpoints(g.nodes, n1, n2),
           edges |-> [p \in (DOMAIN g.edges) \cup {k} |->
                        IF p = k THEN CreatedEdge(sim, w) ELSE g.edges[p]]]

\* the locked body of add_node_if_not_exists
AddNodeIfNotExists(g, n, attrs) ==
  [g EXCEPT !.nodes = [m \in (DOMAIN g.nodes) \cup {n} |->
                         IF m = n THEN attrs ELSE g.nodes[m]]]

\* ------------------------------------------------------------------- files
Missing == [st |-> "missing", g |-> EmptyGraph]
Corrupt == [st |-> "corrupt", g |-> EmptyGraph]

\* pickle.dump(self.graph, f): a networkx Graph is written as its node table
\* and its adjacency table, which lists every edge under both of its endpoints
Dumps(g) ==
  [node |-> g.nodes,
   adj |-> [u \in DOMAIN g.nodes |->
              [v \in {w \in DOMAIN g.nodes : EdgeKey(u, w) \in DOMAIN g.edges} |->
                 g.edges[EdgeKey(u, v)]]]]

\* mutant: only the nodes that have an edge are read back
LoadsLinkedOnly(b) ==
  LET keys == UNION {{EdgeKey(u, v) : v \in DOMAIN b.adj[u]} : u \in DOMAIN b.adj}
  IN [nodes |-> [n \in {u \in DOMAIN b.node : DOMAIN b.adj[u] # {}} |-> b.node[n]],
      edges |-> [k \in keys |->
                   LET u == CHOOSE x \in k : TRUE
                       v == IF k = {u} THEN u ELSE CHOOSE y \in k : y # u
                   IN b.adj[u][v]]]

\* pickle.load(f): the graph the tables describe
Loads(b) ==
  LET keys == UNION {{EdgeKey(u, v) : v \in DOMAIN b.adj[u]} : u \in DOMAIN b.adj}
  IN [nodes |-> b.node,
      edges |-> [k \in keys |->
                   LET u == CHOOSE x \in k : TRUE
                       v == IF k = {u} THEN u ELSE CHOOSE y \in k : y # u
                   IN b.adj[u][v]]]

\* a readable file, described by the graph a load of it returns
File(g) == [st |-> "ok", g |-> Loads(Dumps(g))]

Exists(f) == f.st # "missing"
Loadable(f) == f.st = "ok"

\* mutant: a backup restored for a missing primary is not moved to the primary path
LoadGraphNoPromote(p, b, c) ==
  IF ~Exists(p)
  THEN IF Exists(b) /\ Loadable(b)
       THEN [outcome |-> "backup", g |-> b.g, primary |-> p, backup |-> b, corrupted |-> c]
       ELSE [outcome |-> "new", g |-> EmptyGraph, primary |-> p, backup |-> b, corrupted |-> c]
  ELSE IF Loadable(p)
       THEN [outcome |-> "primary", g |-> p.g, primary |-> p, backup |-> b, corrupted |-> c]
       ELSE IF Exists(b) /\ Loadable(b)
            THEN [outcome |-> "backup", g |-> b.g, primary |-> Missing, backup |-> b, corrupted |-> p]
            ELSE [outcome |-> "fatal", g |-> EmptyGraph, primary |-> Missing, backup |-> b, corrupted |-> p]

\* mutant: an unreadable primary is removed instead of renamed aside
LoadGraphDropCorrupted(p, b, c) ==
  IF ~Exists(p)
  THEN IF Exists(b) /\ Loadable(b)
       THEN [outcome |-> "backup", g |-> b.g, primary |-> b, backup |-> Missing, corrupted |-> c]
       ELSE [outcome |-> "new", g |-> EmptyGraph, primary |-> p, backup |-> b, corrupted |-> c]
  ELSE IF Loadable(p)
       THEN [outcome |-> "primary", g |-> p.g, primary |-> p, backup |-> b, corrupted |-> c]
       ELSE IF Exists(b) /\ Loadable(b)
            THEN [outcome |-> "backup", g |-> b.g, primary |-> Missing, backup |-> b, corrupted |-> c]
            ELSE [outcome |-> "fatal", g |-> EmptyGraph, primary |-> Missing, backup |-> b, corrupted |-> c]

\* mutant: an unreadable primary without a usable backup starts a new graph
LoadGraphNoFatal(p, b, c) ==
  IF ~Exists(p)
  THEN IF Exists(b) /\ Loadable(b)
       THEN [outcome |-> "backup", g |-> b.g, primary |-> b, backup |-> Missing, corrupted |-> c]
       ELSE [outcome |-> "new", g |-> EmptyGraph, primary |-> p, backup |-> b, corrupted |-> c]
  ELSE IF Loadable(p)
       THEN [outcome |-> "primary", g |-> p.g, primary |-> p, backup |-> b, corrupted |-> c]
       ELSE IF Exists(b) /\ Loadable(b)
            THEN [outcome |-> "backup", g |-> b.g, primary |-> Missing, backup |-> b, corrupted |-> p]
            ELSE [outcome |-> "new", g |-> EmptyGraph, primary |-> Missing, backup |-> b, corrupted |-> p]

\* _load_graph: the graph it returns (or the fatal error) and the files it leaves
LoadGraph(p, b, c) ==
  IF ~Exists(p)
  THEN IF Exists(b) /\ Loadable(b)
       THEN [outcome |-> "backup", g |-> b.g, primary |-> b, backup |-> Missing, corrupted |-> c]
       ELSE [outcome |-> "new", g |-> EmptyGraph, primary |-> p, backup |-> b, corrupted |-> c]
  ELSE IF Loadable(p)
       THEN [outcome |-> "primary", g |-> p.g, primary |-> p, backup |-> b, corrupted |-> c]
       ELSE IF Exists(b) /\ Loadable(b)
            THEN [outcome |-> "backup", g |-> b.g, primary |-> Missing, backup |-> b, corrupted |-> p]
            ELSE [outcome |-> "fatal", g |-> EmptyGraph, primary |-> Missing, backup |-> b, corrupted |-> p]

NoCall == [pc |-> "new", kind |-> "edge", n1 |-> "u1", n2 |-> "u1", sim |-> 0,
           m1 |-> [importance |-> 0], m2 |-> [importance |-> 0], attrs |-> NoAttrs,
           owner |-> "direct", oid |-> 0]

NoHist == [outcome |-> "none", loaded |-> EmptyGraph, lp |-> Missing, lb |-> Missing,
           inSave |-> FALSE, pre |-> FALSE, old |-> EmptyGraph, new |-> EmptyGraph]

\* ----------------------------------------------------- graph store: calls
\* a caller creates the coroutine add_or_update_edge(n1, n2, sim, m1, m2)
IssueEdge(t, n1, n2, sim, m1, m2) ==
  /\ proc = "up"
  /\ calls[t].pc = "new"
  /\ t <= MaxDirectCalls
  /\ t > 1 => calls[t - 1].pc # "new"
  /\ calls' = [calls EXCEPT ![t] = [NoCall EXCEPT !.pc = "wait", !.n1 = n1, !.n2 = n2,
                                                  !.sim = sim, !.m1 = m1, !.m2 = m2]]
  /\ UNCHANGED <<proc, graph, lock, savePc, primary, backup, temp, corrupted, hist, storeVars>>

\* a caller creates the coroutine add_node_if_not_exists(n, **attrs)
IssueNode(t, n, attrs) ==
  /\ proc = "up"
  /\ calls[t].pc = "new"
  /\ t <= MaxDirectCalls
  /\ t > 1 => calls[t - 1].pc # "new"
  /\ calls' = [calls EXCEPT ![t] = [NoCall EXCEPT !.pc = "wait", !.kind = "node",
                                                  !.n1 = n, !.n2 = n, !.attrs = attrs]]
  /\ UNCHANGED <<proc, graph, lock, savePc, primary, backup, temp, corrupted, hist, storeVars>>

\* mutant: a call with equal ids goes on to write the edge
SelfLoopReturnWrites(t) ==
  /\ proc = "up"
  /\ calls[t].pc = "wait" /\ calls[t].kind = "edge" /\ calls[t].n1 = calls[t].n2
  /\ calls' = [calls EXCEPT ![t].pc = "done"]
  /\ graph' = AddOrUpdateEdge(graph, calls[t].n1, calls[t].n2, calls[t].sim,
                              calls[t].m1, calls[t].m2)
  /\ UNCHANGED <<proc, lock, savePc, primary, backup, temp, corrupted, hist, storeVars>>

\* add_or_update_edge: if node1_id == node2_id: return
SelfLoopReturn(t) ==
  /\ proc = "up"
  /\ calls[t].pc = "wait" /\ calls[t].kind = "edge" /\ calls[t].n1 = calls[t].n2
  /\ calls' = [calls EXCEPT ![t].pc = "done"]
  /\ UNCHANGED <<proc, graph, lock, savePc, primary, backup, temp, corrupted, hist, storeVars>>

\* async with self.lock: the coroutine gets the lock when nobody holds it
Acquire(t) ==
  /\ proc = "up"
  /\ calls[t].pc = "wait"
  /\ calls[t].kind = "edge" => calls[t].n1 # calls[t].n2
  /\ lock = Free
  /\ lock' = t
  /\ calls' = [calls EXCEPT ![t].pc = "locked"]
  /\ UNCHANGED <<proc, graph, savePc, primary, backup, temp, corrupted, hist, storeVars>>

\* mutant: the edge is written but the lock is kept after the body
EdgeBodyKeepLock(t) ==
  /\ proc = "up"
  /\ calls[t].pc = "locked" /\ calls[t].kind = "edge"
  /\ graph' = AddOrUpdateEdge(graph, calls[t].n1, calls[t].n2, calls[t].sim,
                              calls[t].m1, calls[t].m2)
  /\ lock' = lock
  /\ calls' = [calls EXCEPT ![t].pc = "done"]
  /\ UNCHANGED <<proc, savePc, primary, backup, temp, corrupted, hist, storeVars>>

\* the body of add_or_update_edge under the lock, and the release
EdgeBody(t) ==
  /\ proc = "up"
  /\ calls[t].pc = "locked" /\ calls[t].kind = "edge"
  /\ graph' = AddOrUpdateEdge(graph, calls[t].n1, calls[t].n2, calls[t].sim,
                              calls[t].m1, calls[t].m2)
  /\ lock' = Free
  /\ calls' = [calls EXCEPT ![t].pc = "done"]
  /\ UNCHANGED <<proc, savePc, primary, backup, temp, corrupted, hist, storeVars>>

\* the body of add_node_if_not_exists under the lock, and the release
NodeBody(t) ==
  /\ proc = "up"
  /\ calls[t].pc = "locked" /\ calls[t].kind = "node"
  /\ graph' = AddNodeIfNotExists(graph, calls[t].n1, calls[t].attrs)
  /\ lock' = Free
  /\ calls' = [calls EXCEPT ![t].pc = "done"]
  /\ UNCHANGED <<proc, savePc, primary, backup, temp, corrupted, hist, storeVars>>

\* ------------------------------------------------- graph store: save_graph
\* save_graph: async with self.lock, then os.makedirs
SaveAcquire ==
  /\ proc = "up"
  /\ savePc = "idle"
  /\ lock = Free
  /\ lock' = SaveTask
  /\ savePc' = "locked"
  /\ hist' = [hist EXCEPT !.inSave = FALSE,
                          !.pre = Loadable(primary) \/ Loadable(backup),
                          !.old = IF Loadable(primary) THEN primary.g ELSE backup.g,
                          !.new = graph]
  /\ UNCHANGED <<proc, graph, calls, primary, backup, temp, corrupted, storeVars>>

\* mutant: the lock is released before the file I/O starts
SaveOpenTempUnlocked ==
  /\ proc = "up"
  /\ savePc = "locked"
  /\ temp' = Corrupt
  /\ savePc' = "writing"
  /\ lock' = Free
  /\ UNCHANGED <<proc, graph, calls, primary, backup, corrupted, hist, storeVars>>

\* _sync_save_graph: open(temp_path, 'wb') leaves a partial file until the dump ends
SaveOpenTemp ==
  /\ proc = "up"
  /\ savePc = "locked"
  /\ temp' = Corrupt
  /\ savePc' = "writing"
  /\ UNCHANGED <<proc, graph, lock, calls, primary, backup, corrupted, hist, storeVars>>

\* _sync_save_graph: pickle.dump(self.graph, f) completes
SaveDump ==
  /\ proc = "up"
  /\ savePc = "writing"
  /\ temp' = File(graph)
  /\ savePc' = "written"
  /\ UNCHANGED <<proc, graph, lock, calls, primary, backup, corrupted, hist, storeVars>>

\* mutant: the old primary is removed instead of moved to the backup path
SaveBackupRemove ==
  /\ proc = "up"
  /\ savePc = "written"
  /\ primary' = Missing
  /\ UNCHANGED backup
  /\ savePc' = "moved"
  /\ UNCHANGED <<proc, graph, lock, calls, temp, corrupted, hist, storeVars>>

\* _sync_save_graph: if os.path.exists(graph_path): os.replace(graph_path, backup_path)
SaveBackup ==
  /\ proc = "up"
  /\ savePc = "written"
  /\ IF Exists(primary)
     THEN backup' = primary /\ primary' = Missing
     ELSE UNCHANGED <<primary, backup>>
  /\ savePc' = "moved"
  /\ UNCHANGED <<proc, graph, lock, calls, temp, corrupted, hist, storeVars>>

\* _sync_save_graph: os.replace(temp_path, graph_path)
SaveReplace ==
  /\ proc = "up"
  /\ savePc = "moved"
  /\ primary' = temp
  /\ temp' = Missing
  /\ savePc' = "renamed"
  /\ UNCHANGED <<proc, graph, lock, calls, backup, corrupted, hist, storeVars>>

\* save_graph: the thread has returned, the async with block ends
SaveRelease ==
  /\ proc = "up"
  /\ savePc = "renamed"
  /\ lock' = Free
  /\ savePc' = "idle"
  /\ UNCHANGED <<proc, graph, calls, primary, backup, temp, corrupted, hist, storeVars>>

\* save_graph: except Exception: the temp file is removed, the block ends
SaveFail ==
  /\ proc = "up"
  /\ savePc \in {"locked", "writing", "written", "moved"}
  /\ temp' = Missing
  /\ lock' = Free
  /\ savePc' = "idle"
  /\ UNCHANGED <<proc, graph, calls, primary, backup, corrupted, hist, storeVars>>

\* ------------------------------------------- process termination and start
\* the process is terminated: memory is lost, the files stay
Crash ==
  /\ proc = "up"
  /\ proc' = "down"
  /\ graph' = EmptyGraph
  /\ lock' = Free
  /\ savePc' = "idle"
  /\ calls' = [t \in CallIds |-> IF calls[t].pc = "new" THEN calls[t]
                                  ELSE [NoCall EXCEPT !.pc = "dead"]]
  /\ hist' = [hist EXCEPT !.inSave = savePc \in {"writing", "written", "moved"}]
  /\ UNCHANGED <<primary, backup, temp, corrupted, storeVars>>

\* GraphManager.__init__: self.graph = self._load_graph()
Load ==
  /\ proc \in {"down", "fatal"}
  /\ LET r == LoadGraph(primary, backup, corrupted)
     IN /\ proc' = IF r.outcome = "fatal" THEN "fatal" ELSE "up"
        /\ graph' = r.g
        /\ primary' = r.primary
        /\ backup' = r.backup
        /\ corrupted' = r.corrupted
        /\ hist' = [hist EXCEPT !.outcome = r.outcome, !.loaded = r.g,
                                !.lp = primary, !.lb = backup]
  /\ UNCHANGED <<lock, calls, savePc, temp, storeVars>>

\* ------------------------------------------------------- canonical store
MaxIngests == 3        \* _add_to_stream coroutines created in one run
MaxExtracts == 2       \* extract_and_process_assets coroutines created in one run

IngestIds == 1..MaxIngests
ExtractIds == 1..MaxExtracts

AI_ROLE_NAME == "assistant"

Texts == {"T1", "T2"}

\* str(uuid.uuid4()): the n-th value drawn; the role prefix of the id is the
\* record's role metadata
Uuid(n) == <<"u1", "u2", "u3", "u4", "u5", "u6", "u7", "u8", "u9", "u10">>[n]

\* hashlib.sha256(text.encode('utf-8')).hexdigest(): one digest per text
Hash(text) == [sha256 |-> text]

NoRecords == [id \in {} |-> [doc |-> "", role |-> "", timestamp |-> 0,
                             access_count |-> 0, hash |-> Hash("")]]

\* a cluster member as get_semantic_cluster returns it
NoCluster == [id \in {} |-> [doc |-> "", role |-> "", access_count |-> 0]]

\* run_cycle before its first run: no cluster, no thought, no model call made
NoReflection == [pc |-> "idle", cluster |-> NoCluster, text |-> "", ac |-> 0,
                 primary_calls |-> 0, backup_calls |-> 0,
                 primary_reply |-> [status |-> "none", text |-> ""],
                 backup_reply |-> [status |-> "none", text |-> ""],
                 slot |-> 0, run |-> 0, id |-> "", cycles |-> 0,
                 hits |-> [id \in {} |-> 0]]

\* no store operation has been called
NoOp == [name |-> "", min |-> 0, ids |-> {}, text |-> "", raises |-> FALSE,
         result |-> [kind |-> "none", ids |-> {}]]

\* handle_text_message before the first message: no chat session, no reply
NoChat == [pc |-> "idle", session |-> FALSE, user_text |-> "", bot_ac |-> 0,
           answered |-> FALSE, error |-> FALSE, i |-> 0, j |-> 0,
           user_run |-> 0, bot_run |-> 0]

\* request_with_retry has not been called
NoError == [class |-> "", status |-> 0, msg |-> {}]

NoRequest == [pc |-> "idle", max_retries |-> 0, attempt |-> 0, waits |-> 0, calls |-> <<>>,
              last_exception |-> NoError, raised |-> NoError, result |-> 0]

NoIngest == [pc |-> "new", text |-> "", role |-> "", ac |-> 0, id |-> "", ts |-> 0,
             slot |-> 0, after |-> {}]


\* -------------------------------------------------------- claim pipeline
CONCEPT_NEIGHBOR_COUNT == 10

\* the distance (in hundredths) the similarity store returns for two fact texts
Dist(x, y) ==
  IF x = y THEN 0
  ELSE IF {x, y} = {"F1", "F2"} THEN 10
  ELSE IF {x, y} = {"F1", "F3"} THEN 20
  ELSE 30

\* f"ментальное действие: {modality_text}"
Hydrate(text) == <<"mental action", text>>

\* f"[{кто}] -> [{что_делает}] -> ([{суть}])"
AssetText(item) == <<item.kto, item.chto_delaet, item.sut>>

\* f"asset_{asset_hash[:16]}"
AssetId(h) == [asset |-> h]

\* self._get_hash(f"{fact_id}:{modality_id}")
AssetHash(fact_id, modality_id) == Hash(<<fact_id, modality_id>>)

NoItem == [kto |-> "", chto_delaet |-> "", sut |-> "", tonalnost |-> <<>>,
           importance |-> 0, confidence |-> 0]

NoMeta == [parent_id |-> "", hash |-> AssetHash(Hash(""), Hash("")), fact_id |-> Hash(""),
           modality_id |-> Hash(""), kto |-> "", tonalnost |-> <<>>,
           importance |-> 0, confidence |-> 0, doc |-> AssetText(NoItem), seq |-> 0]

NoAssets == [id \in {} |-> NoMeta]

NoModalities == [id \in {} |-> [doc |-> Hydrate(""), original_text |-> ""]]

NoFacts == [id \in {} |-> ""]

NoHandle == [inst |-> 0, made |-> 0]

NoExtract == [pc |-> "new", parent |-> "", batch |-> <<>>, items |-> <<>>, item |-> NoItem,
              asset |-> AssetId(AssetHash(Hash(""), Hash(""))), cur |-> NoMeta,
              fact_text |-> "", nbrs |-> {}, pending |-> {}, model |-> 0, response |-> ""]

\* FactManager.get_or_create_fact: the collection afterwards (the id is Hash(text))
GetOrCreateFact(fs, fact_text) ==
  IF Hash(fact_text) \in DOMAIN fs THEN fs
  ELSE [id \in (DOMAIN fs) \cup {Hash(fact_text)} |->
          IF id = Hash(fact_text) THEN fact_text ELSE fs[id]]

\* FactManager.get_or_create_modality: the collection afterwards
GetOrCreateModality(ms, modality_text) ==
  IF Hash(modality_text) \in DOMAIN ms THEN ms
  ELSE [id \in (DOMAIN ms) \cup {Hash(modality_text)} |->
          IF id = Hash(modality_text)
          THEN [doc |-> Hydrate(modality_text), original_text |-> modality_text]
          ELSE ms[id]]

\* assets_collection.get(where={"hash": {"$eq": asset_hash}}): the matching ids
AssetIdsByHash(as, h) == {id \in DOMAIN as : as[id].hash = h}

\* the first id of a set of stored claims, in the order the collection returns them
FirstStored(as, ids) == CHOOSE id \in ids : \A o \in ids : as[id].seq <= as[o].seq

\* mutant: the claim hash also covers the owning utterance
AddOrUpdateCognitiveAssetPerParent(as, item, parent_id, fact_id, modality_id) ==
  LET h == Hash(<<fact_id, modality_id, parent_id>>)
      hits == AssetIdsByHash(as, h)
  IN IF hits # {}
     THEN [id |-> FirstStored(as, hits), assets |-> as]
     ELSE [id |-> AssetId(h),
           assets |-> [id \in (DOMAIN as) \cup {AssetId(h)} |->
                         IF id \in DOMAIN as THEN as[id]
                         ELSE [parent_id |-> parent_id, hash |-> h, fact_id |-> fact_id,
                               modality_id |-> modality_id, kto |-> item.kto,
                               tonalnost |-> item.tonalnost,
                               importance |-> item.importance,
                               confidence |-> item.confidence,
                               doc |-> AssetText(item),
                               seq |-> Cardinality(DOMAIN as) + 1]]]

\* _add_or_update_cognitive_asset: the id it returns and the collection afterwards;
\* adding an id the collection holds leaves the stored record
AddOrUpdateCognitiveAsset(as, item, parent_id, fact_id, modality_id) ==
  LET h == AssetHash(fact_id, modality_id)
      hits == AssetIdsByHash(as, h)
  IN IF hits # {}
     THEN [id |-> FirstStored(as, hits), assets |-> as]
     ELSE [id |-> AssetId(h),
           assets |-> [id \in (DOMAIN as) \cup {AssetId(h)} |->
                         IF id \in DOMAIN as THEN as[id]
                         ELSE [parent_id |-> parent_id, hash |-> h, fact_id |-> fact_id,
                               modality_id |-> modality_id, kto |-> item.kto,
                               tonalnost |-> item.tonalnost,
                               importance |-> item.importance,
                               confidence |-> item.confidence,
                               doc |-> AssetText(item),
                               seq |-> Cardinality(DOMAIN as) + 1]]]

\* if not fact_text or not modality_text: continue
\* mutant: a claim is dropped only when both its fact and its verb are empty
DroppedWhenBothEmpty(item) == item.sut = "" /\ item.chto_delaet = ""

Dropped(item) == item.sut = "" \/ item.chto_delaet = ""

\* the items of the batch from the first one that is not dropped
RECURSIVE SkipDropped(_)
SkipDropped(items) ==
  IF items = <<>> THEN <<>>
  ELSE IF Dropped(Head(items)) THEN SkipDropped(Tail(items))
  ELSE items

StoreInit ==
  /\ stream = NoRecords
  /\ facts = NoFacts
  /\ modalities = NoModalities
  /\ assets = NoAssets
  /\ ing = [i \in IngestIds |-> NoIngest]
  /\ ext = [e \in ExtractIds |-> NoExtract]
  /\ uuids = 0
  /\ clock = 1
  /\ handle = NoHandle
  /\ refl = NoReflection
  /\ searches = 0
  /\ op = NoOp
  /\ chat = NoChat
  /\ req = NoRequest

\* stream_collection.get(where={"hash": {"$eq": text_hash}}): the matching ids
StreamIdsByHash(h) == {id \in DOMAIN stream : stream[id].hash = h}

FreeIngests == {i \in IngestIds : ing[i].pc = "new"}
FreeSlots == {t \in CallIds : calls[t].pc = "new"}
Lowest(S) == CHOOSE x \in S : \A y \in S : x <= y
Returned == {i \in IngestIds : ing[i].pc = "done"}

\* _add_to_stream(text, role, initial_ac) is called: the hash is computed and
\* the lookup is handed to a worker thread
StartIngest(i, text, role, ac) ==
  [NoIngest EXCEPT !.pc = "get", !.text = text, !.role = role, !.ac = ac, !.after = Returned]

\* save_dialogue_pair: both _add_to_stream tasks are created before either runs
SaveDialoguePair(user_text, bot_text, bot_ac) ==
  /\ proc = "up"
  /\ Cardinality(FreeIngests) >= 2
  /\ LET i == Lowest(FreeIngests)
         j == Lowest(FreeIngests \ {i})
     IN ing' = [ing EXCEPT ![i] = StartIngest(i, user_text, "user", 0),
                           ![j] = StartIngest(j, bot_text, AI_ROLE_NAME, bot_ac)]
  /\ UNCHANGED <<proc, graph, lock, calls, savePc, primary, backup, temp, corrupted, hist, refl, searches, op, chat, req>>
  /\ UNCHANGED <<stream, facts, modalities, assets, ext, uuids, clock, handle>>

\* save_reflection: one _add_to_stream with the role internal
SaveReflection(text, ac) ==
  /\ proc = "up"
  /\ FreeIngests # {}
  /\ LET i == Lowest(FreeIngests)
     IN ing' = [ing EXCEPT ![i] = StartIngest(i, text, "internal", ac)]
  /\ UNCHANGED <<proc, graph, lock, calls, savePc, primary, backup, temp, corrupted, hist, refl, searches, op, chat, req>>
  /\ UNCHANGED <<stream, facts, modalities, assets, ext, uuids, clock, handle>>

\* _add_to_stream: the lookup runs; a hit returns the stored id, a miss draws
\* the new id and the metadata and hands the add to a worker thread
IngestGet(i) ==
  /\ proc = "up"
  /\ ing[i].pc = "get"
  /\ LET hits == StreamIdsByHash(Hash(ing[i].text))
     IN IF hits # {}
        THEN /\ \E id \in hits : ing' = [ing EXCEPT ![i].pc = "done", ![i].id = id]
             /\ UNCHANGED <<uuids, clock>>
        ELSE /\ ing' = [ing EXCEPT ![i].pc = "adding", ![i].id = Uuid(uuids + 1),
                                   ![i].ts = clock]
             /\ uuids' = uuids + 1
             /\ clock' = clock + 1
  /\ UNCHANGED <<proc, graph, lock, calls, savePc, primary, backup, temp, corrupted, hist, refl, searches, op, chat, req>>
  /\ UNCHANGED <<stream, facts, modalities, assets, ext, handle>>

\* _add_to_stream: stream_collection.add runs, then add_node_if_not_exists is awaited
IngestAdd(i) ==
  /\ proc = "up"
  /\ ing[i].pc = "adding"
  /\ FreeSlots # {}
  /\ LET t == Lowest(FreeSlots)
     IN /\ stream' = [id \in (DOMAIN stream) \cup {ing[i].id} |->
                        IF id = ing[i].id
                        THEN [doc |-> ing[i].text, role |-> ing[i].role,
                              timestamp |-> ing[i].ts, access_count |-> ing[i].ac,
                              hash |-> Hash(ing[i].text)]
                        ELSE stream[id]]
        /\ calls' = [calls EXCEPT ![t] =
                       [NoCall EXCEPT !.pc = "wait", !.kind = "node",
                                      !.n1 = ing[i].id, !.n2 = ing[i].id,
                                      !.attrs = [role |-> ing[i].role, timestamp |-> ing[i].ts],
                                      !.owner = "ingest", !.oid = i]]
        /\ ing' = [ing EXCEPT ![i].pc = "noding", ![i].slot = t]
  /\ UNCHANGED <<proc, graph, lock, savePc, primary, backup, temp, corrupted, hist, refl, searches, op, chat, req>>
  /\ UNCHANGED <<facts, modalities, assets, ext, uuids, clock, handle>>

\* _add_to_stream: add_node_if_not_exists has returned; return new_id
IngestReturn(i) ==
  /\ proc = "up"
  /\ ing[i].pc = "noding"
  /\ calls[ing[i].slot].pc = "done"
  /\ calls' = [calls EXCEPT ![ing[i].slot] = NoCall]
  /\ ing' = [ing EXCEPT ![i].pc = "done", ![i].slot = 0]
  /\ UNCHANGED <<proc, graph, lock, savePc, primary, backup, temp, corrupted, hist, refl, searches, op, chat, req>>
  /\ UNCHANGED <<stream, facts, modalities, assets, ext, uuids, clock, handle>>

\* _add_to_stream: the stream_collection.get or stream_collection.add handed
\* to a worker thread raises; nothing catches it, the coroutine ends with the
\* exception and its awaiter receives it
IngestRaise(i) ==
  /\ proc = "up"
  /\ ing[i].pc \in {"get", "adding"}
  /\ ing' = [ing EXCEPT ![i].pc = "raised"]
  /\ UNCHANGED <<proc, graph, lock, calls, savePc, primary, backup, temp, corrupted, hist, refl, searches, op, chat, req>>
  /\ UNCHANGED <<stream, facts, modalities, assets, ext, uuids, clock, handle>>

\* ------------------------------------------------ claim pipeline: actions
FreeExtracts == {e \in ExtractIds : ext[e].pc = "new"}

\* the for loop of extract_and_process_assets from the given items up to its
\* next await: dropped items are skipped, the first other item is resolved
\* and persisted, and _rebuild_graph_for_asset starts its first lookup
ContinueBatch(e, rec, items) ==
  LET rest == SkipDropped(items)
  IN IF rest = <<>>
     THEN /\ ext' = [ext EXCEPT ![e] = [NoExtract EXCEPT !.pc = "done", !.parent = rec.parent,
                                                         !.batch = rec.batch,
                                                         !.response = rec.response]]
          /\ UNCHANGED <<facts, modalities, assets>>
     ELSE LET item == Head(rest)
              fact_id == Hash(item.sut)
              modality_id == Hash(item.chto_delaet)
              r == AddOrUpdateCognitiveAsset(assets, item, rec.parent, fact_id, modality_id)
          IN /\ facts' = GetOrCreateFact(facts, item.sut)
             /\ modalities' = GetOrCreateModality(modalities, item.chto_delaet)
             /\ assets' = r.assets
             /\ ext' = [ext EXCEPT ![e] = [rec EXCEPT !.pc = "l_asset", !.items = Tail(rest),
                                                     !.item = item,
                                                          !.asset = r.id, !.cur = NoMeta,
                                                          !.fact_text = "", !.nbrs = {},
                                                          !.pending = {}]]

\* extract_and_process_assets(parent_id) up to the await of the generative call
ExtractCall(e, parent_id) ==
  /\ proc = "up"
  /\ FreeExtracts # {} /\ e = Lowest(FreeExtracts)
  /\ LET concepts_model == IF handle.inst = 0
                            THEN [inst |-> handle.made + 1, made |-> handle.made + 1]
                            ELSE handle
     IN /\ handle' = concepts_model
        /\ ext' = [ext EXCEPT ![e] =
                     IF parent_id \in DOMAIN stream
                     THEN [NoExtract EXCEPT !.pc = "gen", !.parent = parent_id,
                                            !.model = concepts_model.inst]
                     ELSE [NoExtract EXCEPT !.pc = "done", !.parent = parent_id]]
  /\ UNCHANGED <<proc, graph, lock, calls, savePc, primary, backup, temp, corrupted, hist, refl, searches, op, chat, req>>
  /\ UNCHANGED <<stream, facts, modalities, assets, ing, uuids, clock>>

\* mutant: the cached model survives a failed generative call
ExtractFailKeepsModel(e) ==
  /\ proc = "up"
  /\ ext[e].pc = "gen"
  /\ ext' = [ext EXCEPT ![e].pc = "done", ![e].model = 0, ![e].response = "raised"]
  /\ UNCHANGED <<proc, graph, lock, calls, savePc, primary, backup, temp, corrupted, hist, refl, searches, op, chat, req>>
  /\ UNCHANGED <<stream, facts, modalities, assets, ing, uuids, clock, handle>>

\* the generative call raises: except Exception resets the cached model
ExtractFail(e) ==
  /\ proc = "up"
  /\ ext[e].pc = "gen"
  /\ handle' = [handle EXCEPT !.inst = 0]
  /\ ext' = [ext EXCEPT ![e].pc = "done", ![e].model = 0, ![e].response = "raised"]
  /\ UNCHANGED <<proc, graph, lock, calls, savePc, primary, backup, temp, corrupted, hist, refl, searches, op, chat, req>>
  /\ UNCHANGED <<stream, facts, modalities, assets, ing, uuids, clock>>

\* mutant: a response that is a single object is processed as a list of one claim
ExtractMalformedAsItem(e) ==
  /\ proc = "up"
  /\ ext[e].pc = "gen"
  /\ LET object == [NoItem EXCEPT !.kto = "ya", !.sut = "F1", !.chto_delaet = "V1"]
     IN ContinueBatch(e, [ext[e] EXCEPT !.batch = <<object>>, !.response = "malformed"],
                      <<object>>)
  /\ UNCHANGED <<proc, graph, lock, calls, savePc, primary, backup, temp, corrupted, hist, refl, searches, op, chat, req>>
  /\ UNCHANGED <<stream, ing, uuids, clock, handle>>

\* the response is not JSON (json.JSONDecodeError) or not a list
ExtractMalformed(e) ==
  /\ proc = "up"
  /\ ext[e].pc = "gen"
  /\ ext' = [ext EXCEPT ![e].pc = "done", ![e].model = 0, ![e].response = "malformed"]
  /\ UNCHANGED <<proc, graph, lock, calls, savePc, primary, backup, temp, corrupted, hist, refl, searches, op, chat, req>>
  /\ UNCHANGED <<stream, ing, uuids, clock, handle, facts, modalities, assets>>

\* the response is a list of claims: the loop runs up to its first await
ExtractBatch(e, batch) ==
  /\ proc = "up"
  /\ ext[e].pc = "gen"
  /\ ContinueBatch(e, [ext[e] EXCEPT !.batch = batch, !.response = "list"], batch)
  /\ UNCHANGED <<proc, graph, lock, calls, savePc, primary, backup, temp, corrupted, hist, refl, searches, op, chat, req>>
  /\ UNCHANGED <<stream, ing, uuids, clock, handle>>

\* _rebuild_graph_for_asset step 1: assets_collection.get(ids=[asset_id])
LinkAssetGet(e) ==
  /\ proc = "up"
  /\ ext[e].pc = "l_asset"
  /\ IF ext[e].asset \in DOMAIN assets
     THEN /\ ext' = [ext EXCEPT ![e].pc = "l_fact", ![e].cur = assets[ext[e].asset]]
          /\ UNCHANGED <<facts, modalities, assets>>
     ELSE ContinueBatch(e, ext[e], ext[e].items)
  /\ UNCHANGED <<proc, graph, lock, calls, savePc, primary, backup, temp, corrupted, hist, refl, searches, op, chat, req>>
  /\ UNCHANGED <<stream, ing, uuids, clock, handle>>

\* _rebuild_graph_for_asset step 1: facts_collection.get(ids=[fact_id])
LinkFactGet(e) ==
  /\ proc = "up"
  /\ ext[e].pc = "l_fact"
  /\ IF ext[e].cur.fact_id \in DOMAIN facts
     THEN /\ ext' = [ext EXCEPT ![e].pc = "l_query",
                                ![e].fact_text = facts[ext[e].cur.fact_id]]
          /\ UNCHANGED <<facts, modalities, assets>>
     ELSE ContinueBatch(e, ext[e], ext[e].items)
  /\ UNCHANGED <<proc, graph, lock, calls, savePc, primary, backup, temp, corrupted, hist, refl, searches, op, chat, req>>
  /\ UNCHANGED <<stream, ing, uuids, clock, handle>>

\* facts_collection.query(query_texts=[fact_text], n_results=k): the k nearest facts
QueryFacts(fs, fact_text, k) ==
  LET all == {[id |-> f, distance |-> Dist(fact_text, fs[f])] : f \in DOMAIN fs}
  IN {r \in all : Cardinality({q \in all : q.distance < r.distance}) < k}

\* mutant: neighbors below the associative threshold are kept
KeptNeighborsAll(res, fact_id) ==
  {r \in res : r.id # fact_id}

\* the neighbors kept: not the claim's own fact, similarity at or above the threshold
KeptNeighbors(res, fact_id) ==
  {r \in res : r.id # fact_id /\ ~((100 - r.distance) < GRAPH_ASSOCIATIVE_THRESHOLD)}

\* _rebuild_graph_for_asset step 2: the neighbor query and the filter
LinkQuery(e) ==
  /\ proc = "up"
  /\ ext[e].pc = "l_query"
  /\ LET kept == KeptNeighbors(QueryFacts(facts, ext[e].fact_text, CONCEPT_NEIGHBOR_COUNT + 1),
                               ext[e].cur.fact_id)
     IN IF kept # {}
        THEN /\ ext' = [ext EXCEPT ![e].pc = "l_batch", ![e].nbrs = kept]
             /\ UNCHANGED <<facts, modalities, assets>>
        ELSE ContinueBatch(e, ext[e], ext[e].items)
  /\ UNCHANGED <<proc, graph, lock, calls, savePc, primary, backup, temp, corrupted, hist, refl, searches, op, chat, req>>
  /\ UNCHANGED <<stream, ing, uuids, clock, handle>>

\* the (neighbor fact, neighbor utterance) pairs step 4 creates an edge task for
LinkTargets(as, nbrs, parent_id) ==
  {tg \in {[nf |-> n.id, np |-> as[a].parent_id, distance |-> n.distance] :
             n \in nbrs, a \in DOMAIN as} :
     /\ \E a \in DOMAIN as : as[a].fact_id = tg.nf /\ as[a].parent_id = tg.np
     /\ tg.np # ""
     /\ tg.np # parent_id}

\* next(meta for meta in linked_assets_for_neighbor if meta.get('parent_id') == neighbor_parent_id)
NeighborMeta(as, nf, np) ==
  as[FirstStored(as, {x \in DOMAIN as : as[x].fact_id = nf /\ as[x].parent_id = np})]

ScoreMeta(meta) == [importance |-> meta.importance, confidence |-> meta.confidence]

\* _rebuild_graph_for_asset steps 3 and 4: the batched claim lookup, then one
\* add_or_update_edge task per pair; gather is awaited
LinkBatch(e) ==
  /\ proc = "up"
  /\ ext[e].pc = "l_batch"
  /\ LET targets == LinkTargets(assets, ext[e].nbrs, ext[e].cur.parent_id)
     IN IF targets = {}
        THEN ContinueBatch(e, ext[e], ext[e].items) /\ UNCHANGED calls
        ELSE /\ Cardinality(targets) <= Cardinality(FreeSlots)
             /\ LET slotOf == CHOOSE f \in [targets -> FreeSlots] :
                                \A x \in targets, y \in targets : f[x] = f[y] => x = y
                    used == {slotOf[x] : x \in targets}
                    target(t) == CHOOSE x \in targets : slotOf[x] = t
                IN /\ calls' = [t \in CallIds |->
                                  IF t \in used
                                  THEN [NoCall EXCEPT
                                          !.pc = "wait", !.kind = "edge",
                                          !.n1 = ext[e].cur.parent_id,
                                          !.n2 = target(t).np,
                                          !.sim = 100 - target(t).distance,
                                          !.m1 = ScoreMeta(ext[e].cur),
                                          !.m2 = ScoreMeta(NeighborMeta(assets, target(t).nf,
                                                                        target(t).np)),
                                          !.owner = "link", !.oid = e]
                                  ELSE calls[t]]
                   /\ ext' = [ext EXCEPT ![e].pc = "l_gather", ![e].pending = used]
             /\ UNCHANGED <<facts, modalities, assets>>
  /\ UNCHANGED <<proc, graph, lock, savePc, primary, backup, temp, corrupted, hist, refl, searches, op, chat, req>>
  /\ UNCHANGED <<stream, ing, uuids, clock, handle>>

\* mutant: the pass goes on as soon as all but one of its tasks are done
LinkGatherFirst(e) ==
  /\ proc = "up"
  /\ ext[e].pc = "l_gather"
  /\ \E w \in ext[e].pending : \A t \in ext[e].pending \ {w} : calls[t].pc = "done"
  /\ calls' = [t \in CallIds |-> IF t \in ext[e].pending /\ calls[t].pc = "done"
                                  THEN NoCall ELSE calls[t]]
  /\ ContinueBatch(e, ext[e], ext[e].items)
  /\ UNCHANGED <<proc, graph, lock, savePc, primary, backup, temp, corrupted, hist, refl, searches, op, chat, req>>
  /\ UNCHANGED <<stream, ing, uuids, clock, handle>>

\* await asyncio.gather(*tasks) returns; the for loop goes on with the next item
LinkGather(e) ==
  /\ proc = "up"
  /\ ext[e].pc = "l_gather"
  /\ \A t \in ext[e].pending : calls[t].pc = "done"
  /\ calls' = [t \in CallIds |-> IF t \in ext[e].pending THEN NoCall ELSE calls[t]]
  /\ ContinueBatch(e, ext[e], ext[e].items)
  /\ UNCHANGED <<proc, graph, lock, savePc, primary, backup, temp, corrupted, hist, refl, searches, op, chat, req>>
  /\ UNCHANGED <<stream, ing, uuids, clock, handle>>

InitIngest ==
  /\ proc = "up"
  /\ graph = EmptyGraph
  /\ lock = Free
  /\ calls = [t \in CallIds |-> NoCall]
  /\ savePc = "idle"
  /\ primary = Missing
  /\ backup = Missing
  /\ temp = Missing
  /\ corrupted = Missing
  /\ hist = NoHist
  /\ StoreInit

AnyDialoguePair == \E bt \in Texts : SaveDialoguePair("T1", bt, 0)

AnyReflection == SaveReflection("T1", 2)

NextIngest ==
  \/ AnyDialoguePair
  \/ AnyReflection
  \/ \E i \in IngestIds : IngestGet(i)
  \/ \E i \in IngestIds : IngestAdd(i)
  \/ \E i \in IngestIds : IngestReturn(i)
  \/ \E t \in CallIds : Acquire(t)
  \/ \E t \in CallIds : NodeBody(t)

SpecIngest == InitIngest /\ [][NextIngest]_vars

\* ------------------------------------------------ the claim pipeline runs
ItemA == [kto |-> "polzovatel", chto_delaet |-> "V1", sut |-> "F1", tonalnost |-> <<"calm">>,
          importance |-> 7, confidence |-> 8]

ItemB == [kto |-> "ya", chto_delaet |-> "V2", sut |-> "F2", tonalnost |-> <<>>,
          importance |-> 6, confidence |-> 9]

ItemC == [kto |-> "ya", chto_delaet |-> "V1", sut |-> "F3", tonalnost |-> <<>>,
          importance |-> 5, confidence |-> 10]

ItemBad == [kto |-> "ya", chto_delaet |-> "", sut |-> "F3", tonalnost |-> <<>>,
            importance |-> 5, confidence |-> 5]

\* the lists the generative service can answer with
ItemNoFact == [kto |-> "polzovatel", chto_delaet |-> "V2", sut |-> "", tonalnost |-> <<>>,
               importance |-> 4, confidence |-> 4]

Batches == {<<ItemA>>, <<ItemBad, ItemB, ItemNoFact>>}

\* the parent ids a run is started with: the stored utterances
Parents == {"u1", "u2"}

StoredUtterances ==
  [id \in {"u1", "u2"} |->
     IF id = "u1"
     THEN [doc |-> "T1", role |-> "user", timestamp |-> 1, access_count |-> 0,
           hash |-> Hash("T1")]
     ELSE [doc |-> "T2", role |-> AI_ROLE_NAME, timestamp |-> 2, access_count |-> 0,
           hash |-> Hash("T2")]]

\* the claim an earlier run over u1 left in the store
StoredFacts == GetOrCreateFact(NoFacts, ItemC.sut)

StoredModalities == GetOrCreateModality(NoModalities, ItemC.chto_delaet)

StoredAssets ==
  AddOrUpdateCognitiveAsset(NoAssets, ItemC, "u1", Hash(ItemC.sut), Hash(ItemC.chto_delaet)).assets

\* two utterances were ingested before (record and graph node each), and one
\* claim was extracted from the first
InitPipeline ==
  /\ proc = "up"
  /\ graph = AddNodeIfNotExists(
               AddNodeIfNotExists(EmptyGraph, "u1", [role |-> "user", timestamp |-> 1]),
               "u2", [role |-> AI_ROLE_NAME, timestamp |-> 2])
  /\ lock = Free
  /\ calls = [t \in CallIds |-> NoCall]
  /\ savePc = "idle"
  /\ primary = Missing
  /\ backup = Missing
  /\ temp = Missing
  /\ corrupted = Missing
  /\ hist = NoHist
  /\ stream = StoredUtterances
  /\ facts = StoredFacts
  /\ modalities = StoredModalities
  /\ assets = StoredAssets
  /\ ing = [i \in IngestIds |-> NoIngest]
  /\ ext = [e \in ExtractIds |-> NoExtract]
  /\ uuids = 2
  /\ clock = 3
  /\ handle = NoHandle
  /\ refl = NoReflection
  /\ searches = 0
  /\ op = NoOp
  /\ chat = NoChat
  /\ req = NoRequest

AnyExtractCall == \E e \in ExtractIds, p \in Parents : ExtractCall(e, p)

AnyExtractBatch == \E e \in ExtractIds, b \in Batches : ExtractBatch(e, b)

NextPipeline ==
  \/ AnyExtractCall
  \/ \E e \in ExtractIds : ExtractFail(e)
  \/ \E e \in ExtractIds : ExtractMalformed(e)
  \/ AnyExtractBatch
  \/ \E e \in ExtractIds : LinkAssetGet(e)
  \/ \E e \in ExtractIds : LinkFactGet(e)
  \/ \E e \in ExtractIds : LinkQuery(e)
  \/ \E e \in ExtractIds : LinkBatch(e)
  \/ \E e \in ExtractIds : LinkGather(e)
  \/ \E t \in CallIds : Acquire(t)
  \/ \E t \in CallIds : EdgeBody(t)

SpecPipeline == InitPipeline /\ [][NextPipeline]_vars

\* _rebuild_graph_for_asset steps 2 and 3: facts_collection.query or
\* assets_collection.get raises; no task has been created yet; the exception
\* leaves the pass and the for loop, and except Exception of
\* extract_and_process_assets resets the cached model
LinkRaise(e) ==
  /\ proc = "up"
  /\ ext[e].pc \in {"l_query", "l_batch"}
  /\ ext' = [ext EXCEPT ![e] = [NoExtract EXCEPT !.pc = "done", !.parent = ext[e].parent,
                                                !.batch = ext[e].batch,
                                                !.response = "store raised"]]
  /\ handle' = [handle EXCEPT !.inst = 0]
  /\ UNCHANGED <<proc, graph, lock, calls, savePc, primary, backup, temp, corrupted, hist, refl, searches, op, chat, req>>
  /\ UNCHANGED <<stream, facts, modalities, assets, ing, uuids, clock>>

\* ------------------------------------------------------ reflection cycle
REFLECTION_MIN_ACCESS_COUNT == 2
REFLECTION_CLUSTER_SIZE == 5
THOUGHT_SEARCH_RESULT_COUNT == 2
DIALOGUE_SEARCH_RESULT_COUNT == 5

MaxCycles == 1         \* run_cycle jobs the scheduler starts in one run
MaxSearches == 1       \* messages handle_text_message is called with in one run

\* the embedding function of the collection: stored documents and thoughts
\* as points on a line, the distance of a query being the gap between points
DocPos(doc) ==
  CASE doc = "T1" -> 10 [] doc = "T2" -> 20 [] doc = "T3" -> 30
    [] doc = "T4" -> 40 [] doc = "T5" -> 50 [] doc = "T6" -> 60
    [] doc = "R1" -> 34 [] OTHER -> 0

DocDist(a, b) == IF DocPos(a) < DocPos(b) THEN DocPos(b) - DocPos(a) ELSE DocPos(a) - DocPos(b)

\* stream_collection.query(query_texts=[q], n_results=k, where=...): the ids of
\* the k nearest of the records with one of the roles; ties fall either way
Nearest(st, q, k, roles) ==
  LET cand == {id \in DOMAIN st : st[id].role \in roles}
      n == IF Cardinality(cand) < k THEN Cardinality(cand) ELSE k
  IN {S \in SUBSET cand :
        /\ Cardinality(S) = n
        /\ \A a \in S, b \in cand \ S : DocDist(q, st[a].doc) <= DocDist(q, st[b].doc)}

AllRoles == {"user", AI_ROLE_NAME, "internal"}

\* mutant: the threshold is used as given
HotRecordsAsGiven(st, min_access_count) ==
  {id \in DOMAIN st : st[id].access_count >= min_access_count}

\* get_random_hot_record_as_seed: the records random.choices can return
HotRecords(st, min_access_count) ==
  LET m == IF min_access_count <= 0 THEN 1 ELSE min_access_count
  IN {id \in DOMAIN st : st[id].access_count >= m}

\* get_semantic_cluster: id, doc, role and access_count of each result
ClusterOf(st, S) ==
  [id \in S |-> [doc |-> st[id].doc, role |-> st[id].role,
                 access_count |-> st[id].access_count]]

\* how many members of the cluster have an access_count below h
Below(cl, h) == Cardinality({id \in DOMAIN cl : cl[id].access_count < h})

AtOrBelow(cl, h) == Cardinality({id \in DOMAIN cl : cl[id].access_count <= h})

\* sorted(parent_counts)[k - 1]
Ranked(cl, k) ==
  CHOOSE h \in {cl[id].access_count : id \in DOMAIN cl} : Below(cl, h) < k /\ k <= AtOrBelow(cl, h)

\* statistics.median(parent_counts), doubled: the middle value of an odd
\* count, the mean of the two middle values of an even count
Median2(cl) ==
  LET n == Cardinality(DOMAIN cl)
  IN IF n % 2 = 1
     THEN 2 * Ranked(cl, (n + 1) \div 2)
     ELSE Ranked(cl, n \div 2) + Ranked(cl, (n \div 2) + 1)

\* round(x) for x = m2 / 2: halves go to the even neighbour
Round2(m2) ==
  IF m2 % 2 = 0 THEN m2 \div 2
  ELSE IF (m2 \div 2) % 2 = 0 THEN m2 \div 2 ELSE (m2 \div 2) + 1

\* mutant: the new thought gets the access count of the hottest member
InitialThoughtAcMax(cl) ==
  IF DOMAIN cl = {} THEN 0
  ELSE CHOOSE h \in {cl[id].access_count : id \in DOMAIN cl} :
         \A id \in DOMAIN cl : cl[id].access_count <= h

\* round(statistics.median(parent_counts)) if parent_counts else 0
InitialThoughtAc(cl) == IF DOMAIN cl = {} THEN 0 ELSE Round2(Median2(cl))

\* thought_text.strip()
Strip(text) == IF text = " " THEN "" ELSE text

\* what the generative service can answer with: nothing, blanks, a new
\* thought, a text that is already stored
ThoughtTexts == {"", " ", "R1", "T1"}

\* mutant: only the seed-like first member is cooled
CooldownRecordsByIdsFirst(st, ids) ==
  [id \in DOMAIN st |->
     IF id \in ids /\ id = "u1" /\ st[id].access_count > 0
     THEN [st[id] EXCEPT !.access_count = st[id].access_count \div 2]
     ELSE st[id]]

\* cooldown_records_by_ids: current_ac // 2 for every record with current_ac > 0
CooldownRecordsByIds(st, ids) ==
  [id \in DOMAIN st |->
     IF id \in ids /\ st[id].access_count > 0
     THEN [st[id] EXCEPT !.access_count = st[id].access_count \div 2]
     ELSE st[id]]

\* mutant: a retrieved record is counted twice
AccessedTwice(st, S) ==
  [id \in DOMAIN st |->
     IF id \in S THEN [st[id] EXCEPT !.access_count = st[id].access_count + 2] ELSE st[id]]

\* search_and_update: access_count + 1 for every result
Accessed(st, S) ==
  [id \in DOMAIN st |->
     IF id \in S THEN [st[id] EXCEPT !.access_count = st[id].access_count + 1] ELSE st[id]]

\* run_cycle up to the await of the primary model: the seed is drawn, the
\* cluster is formed around it, the prompt is built
StartCycle ==
  /\ proc = "up"
  /\ refl.pc \in {"idle", "skipped", "aborted", "failed", "done"}
  /\ LET hot == HotRecords(stream, REFLECTION_MIN_ACCESS_COUNT)
     IN IF hot = {}
        THEN refl' = [NoReflection EXCEPT !.pc = "skipped", !.cycles = refl.cycles + 1]
        ELSE \E seed \in hot :
               \E S \in Nearest(stream, stream[seed].doc, REFLECTION_CLUSTER_SIZE, AllRoles) :
                 refl' = [NoReflection EXCEPT !.pc = "primary",
                                              !.cluster = ClusterOf(stream, S),
                                              !.hits = [id \in S |-> 0],
                                              !.primary_calls = 1,
                                              !.cycles = refl.cycles + 1]
  /\ UNCHANGED <<proc, graph, lock, calls, savePc, primary, backup, temp, corrupted, hist, searches, op, chat, req>>
  /\ UNCHANGED <<stream, facts, modalities, assets, ing, ext, uuids, clock, handle>>

\* the scheduler starts run_cycle
RunCycle == refl.cycles < MaxCycles /\ StartCycle

\* run_cycle when a store query raises: get_random_hot_record_as_seed returns
\* None or get_semantic_cluster returns []
StartCycleNoCluster ==
  /\ proc = "up"
  /\ refl.pc \in {"idle", "skipped", "aborted", "failed", "done"}
  /\ refl' = [NoReflection EXCEPT !.pc = "skipped", !.cycles = refl.cycles + 1]
  /\ UNCHANGED <<proc, graph, lock, calls, savePc, primary, backup, temp, corrupted, hist, searches, op, chat, req>>
  /\ UNCHANGED <<stream, facts, modalities, assets, ing, ext, uuids, clock, handle>>

RunCycleNoCluster == refl.cycles < MaxCycles /\ StartCycleNoCluster

\* mutant: the cluster is cooled before the thought is saved
SaveAndProcessCoolFirst(r, text) ==
  IF text = "" \/ Strip(text) = ""
  THEN /\ refl' = [r EXCEPT !.pc = "aborted", !.text = text]
       /\ UNCHANGED <<ing, stream>>
  ELSE /\ FreeIngests # {}
       /\ LET i == Lowest(FreeIngests)
              ac == InitialThoughtAc(r.cluster)
          IN /\ ing' = [ing EXCEPT ![i] = StartIngest(i, text, "internal", ac)]
             /\ refl' = [r EXCEPT !.pc = "saving", !.text = text, !.ac = ac, !.slot = i]
       /\ stream' = CooldownRecordsByIds(stream, DOMAIN r.cluster)

\* mutant: a blank thought is saved like any other
SaveAndProcessBlank(r, text) ==
  /\ FreeIngests # {}
  /\ LET i == Lowest(FreeIngests)
         ac == InitialThoughtAc(r.cluster)
     IN /\ ing' = [ing EXCEPT ![i] = StartIngest(i, text, "internal", ac)]
        /\ refl' = [r EXCEPT !.pc = "saving", !.text = text, !.ac = ac, !.slot = i]
  /\ UNCHANGED stream

\* run_cycle from the thought text on: an empty or blank text ends the cycle,
\* any other is handed to save_reflection, which runs _add_to_stream up to
\* its lookup
SaveAndProcess(r, text) ==
  IF text = "" \/ Strip(text) = ""
  THEN /\ refl' = [r EXCEPT !.pc = "aborted", !.text = text]
       /\ UNCHANGED <<ing, stream>>
  ELSE /\ FreeIngests # {}
       /\ LET i == Lowest(FreeIngests)
              ac == InitialThoughtAc(r.cluster)
          IN /\ ing' = [ing EXCEPT ![i] = StartIngest(i, text, "internal", ac)]
             /\ refl' = [r EXCEPT !.pc = "saving", !.text = text, !.ac = ac, !.slot = i]
       /\ UNCHANGED stream

\* _generate_thought: the primary model answers
PrimaryReturn(text) ==
  /\ proc = "up"
  /\ refl.pc = "primary"
  /\ SaveAndProcess([refl EXCEPT !.primary_reply = [status |-> "ok", text |-> text]], text)
  /\ UNCHANGED <<proc, graph, lock, calls, savePc, primary, backup, temp, corrupted, hist, searches, op, chat, req>>
  /\ UNCHANGED <<facts, modalities, assets, ext, uuids, clock, handle>>

\* _generate_thought: the primary model raises, the backup model is called
PrimaryFail ==
  /\ proc = "up"
  /\ refl.pc = "primary"
  /\ refl' = [refl EXCEPT !.pc = "backup", !.backup_calls = refl.backup_calls + 1,
                          !.primary_reply = [status |-> "error", text |-> ""]]
  /\ UNCHANGED <<proc, graph, lock, calls, savePc, primary, backup, temp, corrupted, hist, searches, op, chat, req>>
  /\ UNCHANGED <<stream, facts, modalities, assets, ing, ext, uuids, clock, handle>>

\* _generate_thought: the backup model answers
BackupReturn(text) ==
  /\ proc = "up"
  /\ refl.pc = "backup"
  /\ SaveAndProcess([refl EXCEPT !.backup_reply = [status |-> "ok", text |-> text]], text)
  /\ UNCHANGED <<proc, graph, lock, calls, savePc, primary, backup, temp, corrupted, hist, searches, op, chat, req>>
  /\ UNCHANGED <<facts, modalities, assets, ext, uuids, clock, handle>>

\* mutant: after a failure of the backup model the primary model is tried again
BackupFailRetry ==
  /\ proc = "up"
  /\ refl.pc = "backup"
  /\ refl' = [refl EXCEPT !.pc = "primary", !.primary_calls = refl.primary_calls + 1,
                          !.backup_reply = [status |-> "error", text |-> ""]]
  /\ UNCHANGED <<proc, graph, lock, calls, savePc, primary, backup, temp, corrupted, hist, searches, op, chat, req>>
  /\ UNCHANGED <<stream, facts, modalities, assets, ing, ext, uuids, clock, handle>>

\* _generate_thought: the backup model raises too, None is returned
BackupFail ==
  /\ proc = "up"
  /\ refl.pc = "backup"
  /\ refl' = [refl EXCEPT !.pc = "aborted", !.backup_reply = [status |-> "error", text |-> ""]]
  /\ UNCHANGED <<proc, graph, lock, calls, savePc, primary, backup, temp, corrupted, hist, searches, op, chat, req>>
  /\ UNCHANGED <<stream, facts, modalities, assets, ing, ext, uuids, clock, handle>>

\* _save_and_process: save_reflection has returned the id;
\* _safe_extract_assets runs extract_and_process_assets up to its model call
ReflectionExtract ==
  /\ proc = "up"
  /\ refl.pc = "saving"
  /\ ing[refl.slot].pc = "done"
  /\ FreeExtracts # {}
  /\ LET e == Lowest(FreeExtracts)
         reflection_id == ing[refl.slot].id
         concepts_model == IF handle.inst = 0
                           THEN [inst |-> handle.made + 1, made |-> handle.made + 1]
                           ELSE handle
     IN /\ handle' = concepts_model
        /\ ext' = [ext EXCEPT ![e] =
                     IF reflection_id \in DOMAIN stream
                     THEN [NoExtract EXCEPT !.pc = "gen", !.parent = reflection_id,
                                            !.model = concepts_model.inst]
                     ELSE [NoExtract EXCEPT !.pc = "done", !.parent = reflection_id]]
        /\ refl' = [refl EXCEPT !.pc = "extracting", !.id = reflection_id, !.run = e]
  /\ UNCHANGED <<proc, graph, lock, calls, savePc, primary, backup, temp, corrupted, hist, searches, op, chat, req>>
  /\ UNCHANGED <<stream, facts, modalities, assets, ing, uuids, clock>>

\* _save_and_process: stream_collection.get at the start of
\* extract_and_process_assets raises; _safe_extract_assets catches it and the
\* cluster is cooled
ReflectionExtractRaises ==
  /\ proc = "up"
  /\ refl.pc = "saving"
  /\ ing[refl.slot].pc = "done"
  /\ FreeExtracts # {}
  /\ LET e == Lowest(FreeExtracts)
         reflection_id == ing[refl.slot].id
     IN /\ handle' = IF handle.inst = 0
                     THEN [inst |-> handle.made + 1, made |-> handle.made + 1]
                     ELSE handle
        /\ ext' = [ext EXCEPT ![e] = [NoExtract EXCEPT !.pc = "done", !.parent = reflection_id,
                                                       !.response = "raised"]]
        /\ refl' = [refl EXCEPT !.pc = "done", !.id = reflection_id, !.run = e]
  /\ stream' = CooldownRecordsByIds(stream, DOMAIN refl.cluster)
  /\ UNCHANGED <<proc, graph, lock, calls, savePc, primary, backup, temp, corrupted, hist, searches, op, chat, req>>
  /\ UNCHANGED <<facts, modalities, assets, ing, uuids, clock>>

\* mutant: an exception of save_reflection leaves run_cycle
ReflectionSaveFailsUncaught ==
  /\ proc = "up"
  /\ refl.pc = "saving"
  /\ ing[refl.slot].pc = "raised"
  /\ refl' = [refl EXCEPT !.pc = "crashed"]
  /\ UNCHANGED <<proc, graph, lock, calls, savePc, primary, backup, temp, corrupted, hist, searches, op, chat, req>>
  /\ UNCHANGED <<stream, facts, modalities, assets, ing, ext, uuids, clock, handle>>

\* _save_and_process: save_reflection raises; the except clause logs it, and
\* run_cycle returns without extraction and without cooling
ReflectionSaveFails ==
  /\ proc = "up"
  /\ refl.pc = "saving"
  /\ ing[refl.slot].pc = "raised"
  /\ refl' = [refl EXCEPT !.pc = "failed"]
  /\ UNCHANGED <<proc, graph, lock, calls, savePc, primary, backup, temp, corrupted, hist, searches, op, chat, req>>
  /\ UNCHANGED <<stream, facts, modalities, assets, ing, ext, uuids, clock, handle>>

\* _save_and_process: the store raises inside cooldown_records_by_ids, which
\* catches it; no access_count is written
ReflectionCooldownFails ==
  /\ proc = "up"
  /\ refl.pc = "extracting"
  /\ ext[refl.run].pc = "done"
  /\ refl' = [refl EXCEPT !.pc = "done"]
  /\ UNCHANGED <<proc, graph, lock, calls, savePc, primary, backup, temp, corrupted, hist, searches, op, chat, req>>
  /\ UNCHANGED <<stream, facts, modalities, assets, ing, ext, uuids, clock, handle>>

\* mutant: cooling halves the access counts read when the cluster was formed
ReflectionCooldownStale ==
  /\ proc = "up"
  /\ refl.pc = "extracting"
  /\ ext[refl.run].pc = "done"
  /\ stream' = [id \in DOMAIN stream |->
                  IF id \in DOMAIN refl.cluster /\ stream[id].access_count > 0
                  THEN [stream[id] EXCEPT !.access_count = refl.cluster[id].access_count \div 2]
                  ELSE stream[id]]
  /\ refl' = [refl EXCEPT !.pc = "done"]
  /\ UNCHANGED <<proc, graph, lock, calls, savePc, primary, backup, temp, corrupted, hist, searches, op, chat, req>>
  /\ UNCHANGED <<facts, modalities, assets, ing, ext, uuids, clock, handle>>

\* _save_and_process: the extraction has returned or raised; the cluster is cooled
ReflectionCooldown ==
  /\ proc = "up"
  /\ refl.pc = "extracting"
  /\ ext[refl.run].pc = "done"
  /\ stream' = CooldownRecordsByIds(stream, DOMAIN refl.cluster)
  /\ refl' = [refl EXCEPT !.pc = "done"]
  /\ UNCHANGED <<proc, graph, lock, calls, savePc, primary, backup, temp, corrupted, hist, searches, op, chat, req>>
  /\ UNCHANGED <<facts, modalities, assets, ing, ext, uuids, clock, handle>>

\* handle_text_message: the two search_and_update calls on the user's text
DialogueSearch(user_text) ==
  /\ proc = "up"
  /\ searches < MaxSearches
  /\ \E S1 \in Nearest(stream, user_text, THOUGHT_SEARCH_RESULT_COUNT, {"internal"}) :
       \E S2 \in Nearest(stream, user_text, DIALOGUE_SEARCH_RESULT_COUNT, {"user", AI_ROLE_NAME}) :
         /\ stream' = Accessed(Accessed(stream, S1), S2)
         \* history: the hits on the members of the cluster of a cycle in flight
         /\ refl' = IF refl.pc \in {"primary", "backup", "saving", "extracting"}
                    THEN [refl EXCEPT !.hits =
                            [id \in DOMAIN refl.hits |->
                               refl.hits[id] + (IF id \in S1 THEN 1 ELSE 0)
                                             + (IF id \in S2 THEN 1 ELSE 0)]]
                    ELSE refl
  /\ searches' = searches + 1
  /\ UNCHANGED <<proc, graph, lock, calls, savePc, primary, backup, temp, corrupted, hist, op, chat, req>>
  /\ UNCHANGED <<facts, modalities, assets, ing, ext, uuids, clock, handle>>

\* ------------------------------------------------------------- input sets
\* the add_or_update_edge calls a run issues: one pair in both orders with
\* different similarities, metadata without an importance, and a self loop
EdgeInputs ==
  {[n1 |-> "u1", n2 |-> "u2", sim |-> 90,
    m1 |-> [importance |-> 7, confidence |-> 8], m2 |-> [importance |-> 6, confidence |-> 9]],
   [n1 |-> "u2", n2 |-> "u1", sim |-> 80,
    m1 |-> [confidence |-> 10], m2 |-> [importance |-> 7, confidence |-> 8]],
   [n1 |-> "u1", n2 |-> "u2", sim |-> 80,
    m1 |-> [importance |-> 6, confidence |-> 9], m2 |-> [confidence |-> 10]],
   [n1 |-> "u1", n2 |-> "u1", sim |-> 90,
    m1 |-> [importance |-> 7, confidence |-> 8], m2 |-> [importance |-> 7, confidence |-> 8]]}

NodeAttrs == {[role |-> "user", timestamp |-> 1]}

\* ------------------------------------------------------- the graph store
Init ==
  /\ proc = "up"
  /\ graph = EmptyGraph
  /\ lock = Free
  /\ calls = [t \in CallIds |-> NoCall]
  /\ savePc = "idle"
  /\ primary = Missing
  /\ backup = Missing
  /\ temp = Missing
  /\ corrupted = Missing
  /\ hist = NoHist
  /\ StoreInit

IssueAnyEdge ==
  \E t \in CallIds, in \in EdgeInputs :
    IssueEdge(t, in.n1, in.n2, in.sim, in.m1, in.m2)

IssueAnyNode == \E t \in CallIds, n \in NodeIds, at \in NodeAttrs : IssueNode(t, n, at)

Next ==
  \/ IssueAnyEdge
  \/ IssueAnyNode
  \/ \E t \in CallIds : SelfLoopReturn(t)
  \/ \E t \in CallIds : Acquire(t)
  \/ \E t \in CallIds : EdgeBody(t)
  \/ \E t \in CallIds : NodeBody(t)
  \/ SaveAcquire
  \/ SaveOpenTemp
  \/ SaveDump
  \/ SaveBackup
  \/ SaveReplace
  \/ SaveRelease
  \/ SaveFail

Spec == Init /\ [][Next]_vars

\* ------------------------------------------- the snapshot files and crashes
SnapMeta == [importance |-> 7, confidence |-> 8]

SnapA == AddOrUpdateEdge(EmptyGraph, "u1", "u2", 90, SnapMeta, SnapMeta)

SnapB == AddNodeIfNotExists(EmptyGraph, "u1", [role |-> "user", timestamp |-> 1])

\* the files a starting process can find: absent, unreadable, or an earlier snapshot
StartFiles == {Missing, Corrupt, File(SnapA), File(SnapB)}

InitSnapshot ==
  /\ proc = "down"
  /\ graph = EmptyGraph
  /\ lock = Free
  /\ calls = [t \in CallIds |-> NoCall]
  /\ savePc = "idle"
  /\ primary \in StartFiles
  /\ backup \in StartFiles
  /\ temp = Missing
  /\ corrupted = Missing
  /\ hist = NoHist
  /\ StoreInit

IssueSnapshotEdge ==
  \E t \in CallIds : IssueEdge(t, "u1", "u2", 80, SnapMeta, SnapMeta)

IssueSnapshotNode ==
  \E t \in CallIds : IssueNode(t, "u2", [role |-> "internal", timestamp |-> 2])

NextSnapshot ==
  \/ Load
  \/ Crash
  \/ IssueSnapshotEdge
  \/ IssueSnapshotNode
  \/ \E t \in CallIds : Acquire(t)
  \/ \E t \in CallIds : EdgeBody(t)
  \/ \E t \in CallIds : NodeBody(t)
  \/ SaveAcquire
  \/ SaveOpenTemp
  \/ SaveDump
  \/ SaveBackup
  \/ SaveReplace
  \/ SaveRelease
  \/ SaveFail

SpecSnapshot == InitSnapshot /\ [][NextSnapshot]_vars

\* ------------------------------------------------------------ decay tick
\* GRAPH_DECAY_FACTOR = 0.995, in thousandths
GRAPH_DECAY_FACTOR == 995

\* GRAPH_DECAY_THRESHOLD = 0.01, in the unit of cumulative_weight (1/20000)
GRAPH_DECAY_THRESHOLD == 200

\* a weight multiplied by the decay factor, kept to the precision of the weight unit
Decayed(w) == (w * GRAPH_DECAY_FACTOR) \div 1000

\* the edges after a tick: every weight is multiplied, the edges whose new
\* weight is below the floor are removed
DecayedEdges(edges) ==
  [k \in {x \in DOMAIN edges : Decayed(edges[x].cumulative_weight) >= GRAPH_DECAY_THRESHOLD} |->
     [edges[k] EXCEPT !.cumulative_weight = Decayed(@)]]

\* mutant: the tick multiplies the weights and removes nothing
DecayTickKeepsAll ==
  /\ proc = "up"
  /\ lock = Free
  /\ graph.edges # EmptyEdges
  /\ graph' = [graph EXCEPT !.edges = [k \in DOMAIN graph.edges |->
                  [graph.edges[k] EXCEPT !.cumulative_weight = Decayed(@)]]]
  /\ UNCHANGED <<proc, lock, calls, savePc, primary, backup, temp, corrupted, hist, storeVars>>

\* decay_tick(): a mutating operation of the graph store, so it runs under the
\* lock; it has no suspension point inside
DecayTick ==
  /\ proc = "up"
  /\ lock = Free
  /\ graph.edges # EmptyEdges
  /\ graph' = [graph EXCEPT !.edges = DecayedEdges(graph.edges)]
  /\ UNCHANGED <<proc, lock, calls, savePc, primary, backup, temp, corrupted, hist, storeVars>>

\* ------------------------------------------- single upserts on one pair
\* the similarities of the calls: the two thresholds, their neighbors, the ends
UpsertSims == {78, 80, 85, 86, 90, 100}

\* (importance, confidence) as the generative service can return them: the
\* response schema types both as integer and sets no minimum or maximum
ScorePairs == {<<7, 8>>, <<6, 9>>, <<1, 1>>, <<10, 10>>, <<-1, 5>>}

ScoredItem(sp) == [ItemA EXCEPT !.importance = sp[1], !.confidence = sp[2]]

\* the scores add_or_update_edge reads from the metadata the pipeline stored for an item
PersistedMeta(item) ==
  LET r == AddOrUpdateCognitiveAsset(NoAssets, item, "u1", Hash(item.sut), Hash(item.chto_delaet))
  IN ScoreMeta(r.assets[r.id])

UpsertCall(n1, n2, sim, m1, m2) ==
  [NoCall EXCEPT !.pc = "wait", !.kind = "edge", !.n1 = n1, !.n2 = n2, !.sim = sim,
                 !.m1 = m1, !.m2 = m2]

\* two add_or_update_edge coroutines on the pair (u1, u2) have been created:
\* the first with any similarity and scores, the second with any similarity
InitUpsert ==
  /\ proc = "up"
  /\ graph = EmptyGraph
  /\ lock = Free
  /\ \E sim1 \in UpsertSims, sim2 \in {80, 85, 90}, sp1 \in ScorePairs, sp2 \in ScorePairs :
       calls = [t \in CallIds |->
                  IF t = 1 THEN UpsertCall("u1", "u2", sim1, PersistedMeta(ScoredItem(sp1)),
                                           PersistedMeta(ScoredItem(sp2)))
                  ELSE IF t = 2 THEN UpsertCall("u2", "u1", sim2, PersistedMeta(ScoredItem(<<7, 8>>)),
                                                PersistedMeta(ScoredItem(<<6, 9>>)))
                  ELSE NoCall]
  /\ savePc = "idle"
  /\ primary = Missing
  /\ backup = Missing
  /\ temp = Missing
  /\ corrupted = Missing
  /\ hist = NoHist
  /\ StoreInit

NextUpsert ==
  \/ \E t \in CallIds : Acquire(t)
  \/ \E t \in CallIds : EdgeBody(t)

SpecUpsert == InitUpsert /\ [][NextUpsert]_vars

\* ---------------------------------------------- decay ticks and upserts
\* (similarity, scores, scores) of the upsert that created the edge (u1, u2)
DecayStarts == {<<100, <<1, 1>>, <<1, 1>>>>, <<100, <<1, 1>>, <<1, 2>>>>, <<80, <<1, 2>>, <<1, 2>>>>}

\* the graph after one upsert on (u1, u2) and one on (u2, u3)
DecayStartGraph(st) ==
  AddOrUpdateEdge(
    AddOrUpdateEdge(EmptyGraph, "u1", "u2", st[1], PersistedMeta(ScoredItem(st[2])),
                    PersistedMeta(ScoredItem(st[3]))),
    "u2", "u3", 90, PersistedMeta(ScoredItem(<<1, 1>>)), PersistedMeta(ScoredItem(<<1, 2>>)))

\* the graph holds two edges, and one reinforcing upsert on (u1, u2) is pending
InitDecay ==
  /\ proc = "up"
  /\ \E st \in DecayStarts : graph = DecayStartGraph(st)
  /\ lock = Free
  /\ calls = [t \in CallIds |->
                IF t = 1 THEN UpsertCall("u2", "u1", 80, PersistedMeta(ScoredItem(<<1, 1>>)),
                                         PersistedMeta(ScoredItem(<<1, 1>>)))
                ELSE NoCall]
  /\ savePc = "idle"
  /\ primary = Missing
  /\ backup = Missing
  /\ temp = Missing
  /\ corrupted = Missing
  /\ hist = NoHist
  /\ StoreInit

NextDecay ==
  \/ DecayTick
  \/ \E t \in CallIds : Acquire(t)
  \/ \E t \in CallIds : EdgeBody(t)

\* the tick is periodic, and the locked body of an upsert has no suspension point
SpecDecay ==
  /\ InitDecay
  /\ [][NextDecay]_vars
  /\ WF_vars(DecayTick)
  /\ WF_vars(\E t \in CallIds : EdgeBody(t))

\* ------------------------- claim runs one after another, and direct callers
\* a run starts when no other run is in flight
SequentialExtractCall ==
  \E e \in ExtractIds, p \in Parents :
    /\ \A o \in ExtractIds : ext[o].pc \in {"new", "done"}
    /\ ExtractCall(e, p)

\* a caller of the graph store passes the same utterance id twice
IssueSelfLoop ==
  \E t \in CallIds, n \in NodeIds :
    IssueEdge(t, n, n, 90, PersistedMeta(ItemA), PersistedMeta(ItemB))

NextLinkCalls ==
  \/ SequentialExtractCall
  \/ \E e \in ExtractIds : ExtractFail(e)
  \/ \E e \in ExtractIds : ExtractMalformed(e)
  \/ AnyExtractBatch
  \/ \E e \in ExtractIds : LinkAssetGet(e)
  \/ \E e \in ExtractIds : LinkFactGet(e)
  \/ \E e \in ExtractIds : LinkQuery(e)
  \/ \E e \in ExtractIds : LinkBatch(e)
  \/ \E e \in ExtractIds : LinkGather(e)
  \/ \E e \in ExtractIds : LinkRaise(e)
  \/ IssueSelfLoop
  \/ \E t \in CallIds : SelfLoopReturn(t)
  \/ \E t \in CallIds : Acquire(t)
  \/ \E t \in CallIds : EdgeBody(t)

SpecLinkCalls == InitPipeline /\ [][NextLinkCalls]_vars

\* ------------------------------------------------------ reflection cycles
\* the access counts of the stored utterances when the scheduler starts
StartHeats == {<<3, 0, 2, 0, 1, 1>>, <<2, 3>>, <<3, 4>>, <<1, 0>>, <<0, 3>>}

StartDocs == <<"T1", "T2", "T3", "T4", "T5", "T6">>

\* the n-th stored utterance of a dialogue: user and assistant in turn
StartStream(heats) ==
  [id \in {Uuid(n) : n \in 1..Len(heats)} |->
     LET n == CHOOSE m \in 1..Len(heats) : Uuid(m) = id
     IN [doc |-> StartDocs[n], role |-> IF n % 2 = 1 THEN "user" ELSE AI_ROLE_NAME,
         timestamp |-> n, access_count |-> heats[n], hash |-> Hash(StartDocs[n])]]

\* one graph node per stored utterance
StartNodes(st) ==
  [nodes |-> [id \in DOMAIN st |-> [role |-> st[id].role, timestamp |-> st[id].timestamp]],
   edges |-> EmptyEdges]

\* utterances were ingested and retrieved before, and one claim was extracted
\* from the first
InitReflection ==
  /\ proc = "up"
  /\ \E heats \in StartHeats :
       /\ stream = StartStream(heats)
       /\ graph = StartNodes(StartStream(heats))
       /\ uuids = Len(heats)
       /\ clock = Len(heats) + 1
  /\ lock = Free
  /\ calls = [t \in CallIds |-> NoCall]
  /\ savePc = "idle"
  /\ primary = Missing
  /\ backup = Missing
  /\ temp = Missing
  /\ corrupted = Missing
  /\ hist = NoHist
  /\ facts = StoredFacts
  /\ modalities = StoredModalities
  /\ assets = StoredAssets
  /\ ing = [i \in IngestIds |-> NoIngest]
  /\ ext = [e \in ExtractIds |-> NoExtract]
  /\ handle = NoHandle
  /\ refl = NoReflection
  /\ searches = 0
  /\ op = NoOp
  /\ chat = NoChat
  /\ req = NoRequest

AnyPrimaryReturn == \E text \in ThoughtTexts : PrimaryReturn(text)

AnyBackupReturn == \E text \in ThoughtTexts : BackupReturn(text)

AnyDialogueSearch == DialogueSearch("T6")

NextReflection ==
  \/ RunCycle
  \/ RunCycleNoCluster
  \/ AnyPrimaryReturn
  \/ PrimaryFail
  \/ AnyBackupReturn
  \/ BackupFail
  \/ \E i \in IngestIds : IngestGet(i)
  \/ \E i \in IngestIds : IngestAdd(i)
  \/ \E i \in IngestIds : IngestReturn(i)
  \/ \E t \in CallIds : NodeBody(t)
  \/ ReflectionExtract
  \/ \E e \in ExtractIds : ExtractFail(e)
  \/ \E e \in ExtractIds : ExtractMalformed(e)
  \/ AnyExtractBatch
  \/ \E e \in ExtractIds : LinkAssetGet(e)
  \/ \E e \in ExtractIds : LinkFactGet(e)
  \/ \E e \in ExtractIds : LinkQuery(e)
  \/ \E e \in ExtractIds : LinkBatch(e)
  \/ \E e \in ExtractIds : LinkGather(e)
  \/ \E t \in CallIds : Acquire(t)
  \/ \E t \in CallIds : EdgeBody(t)
  \/ ReflectionCooldown
  \/ AnyDialogueSearch

SpecReflection == InitReflection /\ [][NextReflection]_vars

\* ------------------------------------------------- ticks of the scheduler
MaxTicks == 2

\* the scheduler's interval job: run_cycle is started again after it returned
Tick == refl.cycles < MaxTicks /\ StartCycle

TickNoCluster == refl.cycles < MaxTicks /\ StartCycleNoCluster

NextTicks ==
  \/ Tick
  \/ TickNoCluster
  \/ AnyPrimaryReturn
  \/ PrimaryFail
  \/ AnyBackupReturn
  \/ BackupFail
  \/ \E i \in IngestIds : IngestGet(i)
  \/ \E i \in IngestIds : IngestAdd(i)
  \/ \E i \in IngestIds : IngestReturn(i)
  \/ \E i \in IngestIds : IngestRaise(i)
  \/ \E t \in CallIds : NodeBody(t)
  \/ ReflectionSaveFails
  \/ ReflectionExtract
  \/ ReflectionExtractRaises
  \/ \E e \in ExtractIds : ExtractFail(e)
  \/ \E e \in ExtractIds : ExtractMalformed(e)
  \/ AnyExtractBatch
  \/ \E e \in ExtractIds : LinkAssetGet(e)
  \/ \E e \in ExtractIds : LinkFactGet(e)
  \/ \E e \in ExtractIds : LinkQuery(e)
  \/ \E e \in ExtractIds : LinkBatch(e)
  \/ \E e \in ExtractIds : LinkGather(e)
  \/ \E t \in CallIds : Acquire(t)
  \/ \E t \in CallIds : EdgeBody(t)
  \/ ReflectionCooldown
  \/ ReflectionCooldownFails

SpecTicks == InitReflection /\ [][NextTicks]_vars

\* ------------------------------------------------- the message handler
\* handle_text_message for a user's first message, up to await
\* bot.send_chat_action: the user has no chat session and one is created
MessageStart(user_text) ==
  /\ proc = "up"
  /\ chat.pc = "idle"
  /\ chat' = [NoChat EXCEPT !.pc = "typing", !.session = TRUE, !.user_text = user_text]
  /\ UNCHANGED <<proc, graph, lock, calls, savePc, primary, backup, temp, corrupted, hist, refl, searches, op, req>>
  /\ UNCHANGED <<stream, facts, modalities, assets, ing, ext, uuids, clock, handle>>

\* the two search_and_update calls, the prompt, up to await send_message_async
MessageSearch ==
  /\ proc = "up"
  /\ chat.pc = "typing"
  /\ \E S1 \in Nearest(stream, chat.user_text, THOUGHT_SEARCH_RESULT_COUNT, {"internal"}) :
       \E S2 \in Nearest(stream, chat.user_text, DIALOGUE_SEARCH_RESULT_COUNT,
                         {"user", AI_ROLE_NAME}) :
         /\ stream' = Accessed(Accessed(stream, S1), S2)
         /\ chat' = [chat EXCEPT !.pc = "asking",
                                 !.bot_ac = InitialThoughtAc(ClusterOf(stream, S2))]
  /\ searches' = searches + 1
  /\ UNCHANGED <<proc, graph, lock, calls, savePc, primary, backup, temp, corrupted, hist, refl, op, req>>
  /\ UNCHANGED <<facts, modalities, assets, ing, ext, uuids, clock, handle>>

\* the chat model answers: the reply is sent to the user, then
\* save_dialogue_pair creates its two _add_to_stream tasks
ChatReturn(bot_text) ==
  /\ proc = "up"
  /\ chat.pc = "asking"
  /\ Cardinality(FreeIngests) >= 2
  /\ LET i == Lowest(FreeIngests)
         j == Lowest(FreeIngests \ {i})
     IN /\ ing' = [ing EXCEPT ![i] = StartIngest(i, chat.user_text, "user", 0),
                              ![j] = StartIngest(j, bot_text, AI_ROLE_NAME, chat.bot_ac)]
        /\ chat' = [chat EXCEPT !.pc = "saving", !.answered = TRUE, !.i = i, !.j = j]
  /\ UNCHANGED <<proc, graph, lock, calls, savePc, primary, backup, temp, corrupted, hist, refl, searches, op, req>>
  /\ UNCHANGED <<stream, facts, modalities, assets, ext, uuids, clock, handle>>

\* except Exception of handle_text_message: the error reply is sent and the
\* user's chat session is deleted
ErrorReply(c) == [c EXCEPT !.pc = "failed", !.error = TRUE, !.session = FALSE]

\* send_message_async raises
ChatFail ==
  /\ proc = "up"
  /\ chat.pc = "asking"
  /\ chat' = ErrorReply(chat)
  /\ UNCHANGED <<proc, graph, lock, calls, savePc, primary, backup, temp, corrupted, hist, refl, searches, op, req>>
  /\ UNCHANGED <<stream, facts, modalities, assets, ing, ext, uuids, clock, handle>>

\* asyncio.gather of save_dialogue_pair hands on the exception of a task
PairFails ==
  /\ proc = "up"
  /\ chat.pc = "saving"
  /\ ing[chat.i].pc = "raised" \/ ing[chat.j].pc = "raised"
  /\ chat' = ErrorReply(chat)
  /\ UNCHANGED <<proc, graph, lock, calls, savePc, primary, backup, temp, corrupted, hist, refl, searches, op, req>>
  /\ UNCHANGED <<stream, facts, modalities, assets, ing, ext, uuids, clock, handle>>

\* extract_and_process_assets(parent_id) up to its first await, as a task of
\* run_concepts_extraction_with_wait: stream_collection.get can raise, which
\* safe_extract_assets catches
StartedRun(parent_id, model, raises) ==
  IF raises
  THEN [NoExtract EXCEPT !.pc = "done", !.parent = parent_id, !.response = "raised"]
  ELSE IF parent_id \in DOMAIN stream
       THEN [NoExtract EXCEPT !.pc = "gen", !.parent = parent_id, !.model = model]
       ELSE [NoExtract EXCEPT !.pc = "done", !.parent = parent_id]

\* mutant: the extraction tasks are awaited without a guard, so that a
\* failure of one reaches the except clause of handle_text_message
MessageExtractUnguarded(user_raises, bot_raises) ==
  /\ proc = "up"
  /\ chat.pc = "saving"
  /\ ing[chat.i].pc = "done" /\ ing[chat.j].pc = "done"
  /\ Cardinality(FreeExtracts) >= 2
  /\ LET u == Lowest(FreeExtracts)
         b == Lowest(FreeExtracts \ {u})
         concepts_model == IF handle.inst = 0
                           THEN [inst |-> handle.made + 1, made |-> handle.made + 1]
                           ELSE handle
     IN /\ handle' = concepts_model
        /\ ext' = [ext EXCEPT ![u] = StartedRun(ing[chat.i].id, concepts_model.inst, user_raises),
                              ![b] = StartedRun(ing[chat.j].id, concepts_model.inst, bot_raises)]
        /\ chat' = IF user_raises \/ bot_raises
                   THEN [ErrorReply(chat) EXCEPT !.user_run = u, !.bot_run = b]
                   ELSE [chat EXCEPT !.pc = "extracting", !.user_run = u, !.bot_run = b]
  /\ UNCHANGED <<proc, graph, lock, calls, savePc, primary, backup, temp, corrupted, hist, refl, searches, op, req>>
  /\ UNCHANGED <<stream, facts, modalities, assets, ing, uuids, clock>>

\* save_dialogue_pair has returned both ids; run_concepts_extraction_with_wait
\* creates the two extraction tasks and awaits gather
MessageExtract(user_raises, bot_raises) ==
  /\ proc = "up"
  /\ chat.pc = "saving"
  /\ ing[chat.i].pc = "done" /\ ing[chat.j].pc = "done"
  /\ Cardinality(FreeExtracts) >= 2
  /\ LET u == Lowest(FreeExtracts)
         b == Lowest(FreeExtracts \ {u})
         concepts_model == IF handle.inst = 0
                           THEN [inst |-> handle.made + 1, made |-> handle.made + 1]
                           ELSE handle
     IN /\ handle' = concepts_model
        /\ ext' = [ext EXCEPT ![u] = StartedRun(ing[chat.i].id, concepts_model.inst, user_raises),
                              ![b] = StartedRun(ing[chat.j].id, concepts_model.inst, bot_raises)]
        /\ chat' = [chat EXCEPT !.pc = "extracting", !.user_run = u, !.bot_run = b]
  /\ UNCHANGED <<proc, graph, lock, calls, savePc, primary, backup, temp, corrupted, hist, refl, searches, op, req>>
  /\ UNCHANGED <<stream, facts, modalities, assets, ing, uuids, clock>>

\* gather has returned: both extraction tasks are finished, the handler returns
MessageDone ==
  /\ proc = "up"
  /\ chat.pc = "extracting"
  /\ ext[chat.user_run].pc = "done" /\ ext[chat.bot_run].pc = "done"
  /\ chat' = [chat EXCEPT !.pc = "done"]
  /\ UNCHANGED <<proc, graph, lock, calls, savePc, primary, backup, temp, corrupted, hist, refl, searches, op, req>>
  /\ UNCHANGED <<stream, facts, modalities, assets, ing, ext, uuids, clock, handle>>

\* what the chat model can answer with: a stored text, a new text
BotTexts == {"T2", "T4"}

NextDialogue ==
  \/ MessageStart("T3")
  \/ MessageSearch
  \/ \E bot_text \in BotTexts : ChatReturn(bot_text)
  \/ ChatFail
  \/ PairFails
  \/ \E user_raises \in BOOLEAN, bot_raises \in BOOLEAN : MessageExtract(user_raises, bot_raises)
  \/ MessageDone
  \/ \E i \in IngestIds : IngestGet(i)
  \/ \E i \in IngestIds : IngestAdd(i)
  \/ \E i \in IngestIds : IngestReturn(i)
  \/ \E i \in IngestIds : IngestRaise(i)
  \/ \E t \in CallIds : NodeBody(t)
  \/ \E e \in ExtractIds : ExtractFail(e)
  \/ \E e \in ExtractIds : ExtractMalformed(e)
  \/ AnyExtractBatch
  \/ \E e \in ExtractIds : LinkAssetGet(e)
  \/ \E e \in ExtractIds : LinkFactGet(e)
  \/ \E e \in ExtractIds : LinkQuery(e)
  \/ \E e \in ExtractIds : LinkBatch(e)
  \/ \E e \in ExtractIds : LinkGather(e)
  \/ \E t \in CallIds : Acquire(t)
  \/ \E t \in CallIds : EdgeBody(t)

SpecDialogue == InitPipeline /\ [][NextDialogue]_vars

\* the event loop runs every task that is ready: a step that stays possible is taken
SpecDialogueFair == SpecDialogue /\ WF_vars(NextDialogue)

\* ------------------------------------------- runs over a third utterance
\* the utterances a run is started with when three are stored
LaterParents == {"u2", "u3"}

\* three utterances were ingested before, and one claim was extracted from
\* the first
InitThreeUtterances ==
  /\ proc = "up"
  /\ stream = StartStream(<<0, 0, 0>>)
  /\ graph = StartNodes(StartStream(<<0, 0, 0>>))
  /\ uuids = 3
  /\ clock = 4
  /\ lock = Free
  /\ calls = [t \in CallIds |-> NoCall]
  /\ savePc = "idle"
  /\ primary = Missing
  /\ backup = Missing
  /\ temp = Missing
  /\ corrupted = Missing
  /\ hist = NoHist
  /\ facts = StoredFacts
  /\ modalities = StoredModalities
  /\ assets = StoredAssets
  /\ ing = [i \in IngestIds |-> NoIngest]
  /\ ext = [e \in ExtractIds |-> NoExtract]
  /\ handle = NoHandle
  /\ refl = NoReflection
  /\ searches = 0
  /\ op = NoOp
  /\ chat = NoChat
  /\ req = NoRequest

\* extract_and_process_assets is called for one utterance after the other
LaterExtractCall ==
  \E e \in ExtractIds, p \in LaterParents :
    /\ \A o \in ExtractIds : ext[o].pc \in {"new", "done"}
    /\ ExtractCall(e, p)

NextRelink ==
  \/ LaterExtractCall
  \/ \E e \in ExtractIds : ExtractFail(e)
  \/ \E e \in ExtractIds : ExtractMalformed(e)
  \/ AnyExtractBatch
  \/ \E e \in ExtractIds : LinkAssetGet(e)
  \/ \E e \in ExtractIds : LinkFactGet(e)
  \/ \E e \in ExtractIds : LinkQuery(e)
  \/ \E e \in ExtractIds : LinkBatch(e)
  \/ \E e \in ExtractIds : LinkGather(e)
  \/ \E t \in CallIds : Acquire(t)
  \/ \E t \in CallIds : EdgeBody(t)

SpecRelink == InitThreeUtterances /\ [][NextRelink]_vars

\* ------------------------------------------------ store operations alone
\* the thresholds get_random_hot_record_as_seed is called with
MinHeats == {-1, 0, 1, 3}

\* the id lists cooldown_records_by_ids is called with
IdLists == {{"u1"}, {"u1", "u2"}}

\* get_random_hot_record_as_seed(min_access_count): a storage error is caught
\* and None is returned; otherwise one of the hot records, None if there is none
SeedCall(min_access_count, raises) ==
  /\ proc = "up"
  /\ LET hot == HotRecords(stream, min_access_count)
     IN IF raises \/ hot = {}
        THEN op' = [NoOp EXCEPT !.name = "seed", !.min = min_access_count, !.raises = raises]
        ELSE \E id \in hot :
               op' = [NoOp EXCEPT !.name = "seed", !.min = min_access_count,
                                  !.result = [kind |-> "record", ids |-> {id}]]
  /\ UNCHANGED <<proc, graph, lock, calls, savePc, primary, backup, temp, corrupted, hist, refl, searches, chat, req>>
  /\ UNCHANGED <<stream, facts, modalities, assets, ing, ext, uuids, clock, handle>>

\* get_semantic_cluster(seed_doc, cluster_size): a storage error is caught and
\* [] is returned
ClusterCall(seed_doc, raises) ==
  /\ proc = "up"
  /\ \E S \in Nearest(stream, seed_doc, REFLECTION_CLUSTER_SIZE, AllRoles) :
       op' = [NoOp EXCEPT !.name = "cluster", !.text = seed_doc, !.raises = raises,
                          !.result = [kind |-> "list", ids |-> IF raises THEN {} ELSE S]]
  /\ UNCHANGED <<proc, graph, lock, calls, savePc, primary, backup, temp, corrupted, hist, refl, searches, chat, req>>
  /\ UNCHANGED <<stream, facts, modalities, assets, ing, ext, uuids, clock, handle>>

\* search_and_update(query_text, n_results, where_filter): a storage error is
\* caught and ([], []) is returned
SearchCall(query_text, raises) ==
  /\ proc = "up"
  /\ searches < MaxSearches
  /\ searches' = searches + 1
  /\ \E S \in Nearest(stream, query_text, DIALOGUE_SEARCH_RESULT_COUNT, {"user", AI_ROLE_NAME}) :
       /\ stream' = IF raises THEN stream ELSE Accessed(stream, S)
       /\ op' = [NoOp EXCEPT !.name = "search", !.text = query_text, !.raises = raises,
                             !.result = [kind |-> "list", ids |-> IF raises THEN {} ELSE S]]
  /\ UNCHANGED <<proc, graph, lock, calls, savePc, primary, backup, temp, corrupted, hist, refl, chat, req>>
  /\ UNCHANGED <<facts, modalities, assets, ing, ext, uuids, clock, handle>>

\* cooldown_records_by_ids(ids): a storage error is caught and logged
CooldownCall(ids, raises) ==
  /\ proc = "up"
  /\ stream' = IF raises THEN stream ELSE CooldownRecordsByIds(stream, ids)
  /\ op' = [NoOp EXCEPT !.name = "cooldown", !.ids = ids, !.raises = raises]
  /\ UNCHANGED <<proc, graph, lock, calls, savePc, primary, backup, temp, corrupted, hist, refl, searches, chat, req>>
  /\ UNCHANGED <<facts, modalities, assets, ing, ext, uuids, clock, handle>>

\* get_or_create_fact(fact_text): no except clause, a storage error leaves
\* the method as an exception
FactCall(fact_text, raises) ==
  /\ proc = "up"
  /\ facts' = IF raises THEN facts ELSE GetOrCreateFact(facts, fact_text)
  /\ op' = [NoOp EXCEPT !.name = "fact", !.text = fact_text, !.raises = raises,
                        !.result = [kind |-> IF raises THEN "raised" ELSE "id", ids |-> {}]]
  /\ UNCHANGED <<proc, graph, lock, calls, savePc, primary, backup, temp, corrupted, hist, refl, searches, chat, req>>
  /\ UNCHANGED <<stream, modalities, assets, ing, ext, uuids, clock, handle>>

\* get_or_create_modality(modality_text): no except clause either
ModalityCall(modality_text, raises) ==
  /\ proc = "up"
  /\ modalities' = IF raises THEN modalities ELSE GetOrCreateModality(modalities, modality_text)
  /\ op' = [NoOp EXCEPT !.name = "modality", !.text = modality_text, !.raises = raises,
                        !.result = [kind |-> IF raises THEN "raised" ELSE "id", ids |-> {}]]
  /\ UNCHANGED <<proc, graph, lock, calls, savePc, primary, backup, temp, corrupted, hist, refl, searches, chat, req>>
  /\ UNCHANGED <<stream, facts, assets, ing, ext, uuids, clock, handle>>

NextStoreOps ==
  \/ \E m \in MinHeats, raises \in BOOLEAN : SeedCall(m, raises)
  \/ \E raises \in BOOLEAN : ClusterCall("T1", raises)
  \/ \E raises \in BOOLEAN : SearchCall("T2", raises)
  \/ \E ids \in IdLists, raises \in BOOLEAN : CooldownCall(ids, raises)
  \/ \E raises \in BOOLEAN : FactCall("F1", raises)
  \/ \E raises \in BOOLEAN : ModalityCall("V2", raises)

SpecStoreOps == InitReflection /\ [][NextStoreOps]_vars

\* --------------------------------------- restarts of the whole application
\* the process is terminated while the application runs: the graph in memory
\* and every coroutine are lost; the files and the ChromaDB collections
\* (chromadb.PersistentClient) stay
Terminate ==
  /\ proc = "up"
  /\ proc' = "down"
  /\ graph' = EmptyGraph
  /\ lock' = Free
  /\ savePc' = "idle"
  /\ calls' = [t \in CallIds |-> IF calls[t].pc = "new" THEN calls[t]
                                  ELSE [NoCall EXCEPT !.pc = "dead"]]
  /\ ing' = [i \in IngestIds |-> IF ing[i].pc \in {"new", "done", "raised"} THEN ing[i]
                                  ELSE [ing[i] EXCEPT !.pc = "dead", !.slot = 0]]
  /\ hist' = [hist EXCEPT !.inSave = savePc \in {"writing", "written", "moved"}]
  /\ UNCHANGED <<primary, backup, temp, corrupted>>
  /\ UNCHANGED <<stream, facts, modalities, assets, ext, uuids, clock, handle, refl, searches, op, chat, req>>

\* main: finally: scheduler.shutdown(); graph_manager.save_graph() -- the call
\* is not awaited, so it only builds a coroutine object that never runs; main
\* returns and asyncio.run ends the process (a stop while a periodic save is
\* in flight is Terminate)
Shutdown ==
  /\ proc = "up"
  /\ savePc = "idle"
  /\ proc' = "stopped"
  /\ graph' = EmptyGraph
  /\ lock' = Free
  /\ calls' = [t \in CallIds |-> IF calls[t].pc = "new" THEN calls[t]
                                  ELSE [NoCall EXCEPT !.pc = "dead"]]
  /\ ing' = [i \in IngestIds |-> IF ing[i].pc \in {"new", "done", "raised"} THEN ing[i]
                                  ELSE [ing[i] EXCEPT !.pc = "dead", !.slot = 0]]
  /\ hist' = [hist EXCEPT !.old = graph]
  /\ UNCHANGED <<savePc, primary, backup, temp, corrupted>>
  /\ UNCHANGED <<stream, facts, modalities, assets, ext, uuids, clock, handle, refl, searches, op, chat, req>>

\* the application is started again after a shutdown
Restart ==
  /\ proc = "stopped"
  /\ proc' = "down"
  /\ UNCHANGED <<graph, lock, calls, savePc, primary, backup, temp, corrupted, hist, storeVars>>

MaxRestartIngests == 2   \* _add_to_stream coroutines created over all the runs

\* a reflection or a user message stores one utterance
RestartIngest(text, ac) ==
  /\ Cardinality(IngestIds \ FreeIngests) < MaxRestartIngests
  /\ SaveReflection(text, ac)

NextRestart ==
  \/ RestartIngest("T1", 2)
  \/ RestartIngest("T2", 0)
  \/ \E i \in IngestIds : IngestGet(i)
  \/ \E i \in IngestIds : IngestAdd(i)
  \/ \E i \in IngestIds : IngestReturn(i)
  \/ \E t \in CallIds : Acquire(t)
  \/ \E t \in CallIds : NodeBody(t)
  \/ SaveAcquire
  \/ SaveOpenTemp
  \/ SaveDump
  \/ SaveBackup
  \/ SaveReplace
  \/ SaveRelease
  \/ SaveFail
  \/ Terminate
  \/ Shutdown
  \/ Restart
  \/ Load

SpecRestart == InitIngest /\ [][NextRestart]_vars

\* ------------------------------------------------------ request_with_retry
MaxRetries == 2        \* the largest max_retries request_with_retry is called with

\* an attempt that returned
Ok == [class |-> "ok", status |-> 0, msg |-> {}]

\* the task is cancelled: asyncio.CancelledError, a BaseException
Cancelled == [class |-> "CancelledError", status |-> 0, msg |-> {}]

\* the exceptions an attempt can raise: the class, the status_code or code
\* attribute (0: the exception has none) and the keywords str(exception) has
Errors ==
  {[class |-> "TimeoutError", status |-> 0, msg |-> {}],
   [class |-> "SDKError", status |-> 503, msg |-> {}],
   [class |-> "SDKError", status |-> 429, msg |-> {}],
   [class |-> "SDKError", status |-> 400, msg |-> {"connection"}],
   [class |-> "SDKError", status |-> 0, msg |-> {"connection"}],
   [class |-> "SDKError", status |-> 0, msg |-> {"503"}],
   [class |-> "GoogleAPIError", status |-> 500, msg |-> {}],
   [class |-> "GoogleAPIError", status |-> 404, msg |-> {"unavailable"}],
   [class |-> "GoogleAPIError", status |-> 0, msg |-> {"502"}],
   [class |-> "ValueError", status |-> 0, msg |-> {"429"}],
   [class |-> "ValueError", status |-> 0, msg |-> {"timeout"}],
   Cancelled}

\* is_retriable_error(exception)
IsRetriableError(e) ==
  IF e.class \in {"TimeoutError", "CancelledError"} THEN TRUE
  ELSE IF e.class = "SDKError"
       THEN IF e.status # 0
            THEN e.status >= 500 \/ e.status = 429
            ELSE e.msg \cap {"connect error", "disconnect", "reset", "overflow",
                             "connection", "timeout", "unavailable"} # {}
       ELSE IF e.class = "GoogleAPIError" /\ e.status # 0
            THEN e.status >= 500 \/ e.status = 429
            ELSE e.msg \cap {"503", "502", "500", "429"} # {}

\* request_with_retry(coro_factory, rate_limiter, timeout_seconds, max_retries)
\* is called: the for loop starts, or has nothing to run and None is returned
RequestStart(max_retries) ==
  /\ req.pc = "idle"
  /\ req' = [NoRequest EXCEPT !.pc = IF max_retries + 1 > 0 THEN "limiter" ELSE "returned",
                              !.max_retries = max_retries]
  /\ UNCHANGED <<proc, graph, lock, calls, savePc, primary, backup, temp, corrupted, hist>>
  /\ UNCHANGED <<stream, facts, modalities, assets, ing, ext, uuids, clock, handle, refl, searches, op, chat>>

\* await rate_limiter.wait() returns
LimiterWait ==
  /\ req.pc = "limiter"
  /\ req' = [req EXCEPT !.pc = "call", !.waits = req.waits + 1]
  /\ UNCHANGED <<proc, graph, lock, calls, savePc, primary, backup, temp, corrupted, hist>>
  /\ UNCHANGED <<stream, facts, modalities, assets, ing, ext, uuids, clock, handle, refl, searches, op, chat>>

\* return await request_with_timeout(coro, timeout_seconds)
AttemptReturn ==
  /\ req.pc = "call"
  /\ req' = [req EXCEPT !.pc = "returned", !.calls = Append(req.calls, Ok),
                        !.result = req.attempt + 1]
  /\ UNCHANGED <<proc, graph, lock, calls, savePc, primary, backup, temp, corrupted, hist>>
  /\ UNCHANGED <<stream, facts, modalities, assets, ing, ext, uuids, clock, handle, refl, searches, op, chat>>

\* mutant: an error that is not retriable is retried as well
AttemptRaiseRetryAll(e) ==
  /\ req.pc = "call"
  /\ req' = IF e.class = "CancelledError"
            THEN [req EXCEPT !.pc = "raised", !.calls = Append(req.calls, e), !.raised = e]
            ELSE IF req.attempt < req.max_retries
                 THEN [req EXCEPT !.pc = "sleep", !.calls = Append(req.calls, e),
                                  !.last_exception = e]
                 ELSE [req EXCEPT !.pc = "raised", !.calls = Append(req.calls, e),
                                  !.last_exception = e, !.raised = e]
  /\ UNCHANGED <<proc, graph, lock, calls, savePc, primary, backup, temp, corrupted, hist>>
  /\ UNCHANGED <<stream, facts, modalities, assets, ing, ext, uuids, clock, handle, refl, searches, op, chat>>

\* the attempt raises e: asyncio.CancelledError is not an Exception and leaves
\* the function; except Exception re-raises an error that is not retriable,
\* and a retriable one when the attempts are used up; otherwise the backoff
\* sleep starts
AttemptRaise(e) ==
  /\ req.pc = "call"
  /\ req' = IF e.class = "CancelledError" \/ ~IsRetriableError(e)
            THEN [req EXCEPT !.pc = "raised", !.calls = Append(req.calls, e), !.raised = e]
            ELSE IF req.attempt < req.max_retries
                 THEN [req EXCEPT !.pc = "sleep", !.calls = Append(req.calls, e),
                                  !.last_exception = e]
                 ELSE [req EXCEPT !.pc = "raised", !.calls = Append(req.calls, e),
                                  !.last_exception = e, !.raised = e]
  /\ UNCHANGED <<proc, graph, lock, calls, savePc, primary, backup, temp, corrupted, hist>>
  /\ UNCHANGED <<stream, facts, modalities, assets, ing, ext, uuids, clock, handle, refl, searches, op, chat>>

\* the task is cancelled while it waits for the rate limiter or sleeps
CancelledWaiting ==
  /\ req.pc \in {"limiter", "sleep"}
  /\ req' = [req EXCEPT !.pc = "raised", !.raised = Cancelled]
  /\ UNCHANGED <<proc, graph, lock, calls, savePc, primary, backup, temp, corrupted, hist>>
  /\ UNCHANGED <<stream, facts, modalities, assets, ing, ext, uuids, clock, handle, refl, searches, op, chat>>

\* await asyncio.sleep(delay) returns: the next iteration of the for loop
BackoffDone ==
  /\ req.pc = "sleep"
  /\ req' = [req EXCEPT !.pc = "limiter", !.attempt = req.attempt + 1]
  /\ UNCHANGED <<proc, graph, lock, calls, savePc, primary, backup, temp, corrupted, hist>>
  /\ UNCHANGED <<stream, facts, modalities, assets, ing, ext, uuids, clock, handle, refl, searches, op, chat>>

NextRetry ==
  \/ \E m \in (0 - 1)..MaxRetries : RequestStart(m)
  \/ LimiterWait
  \/ AttemptReturn
  \/ \E e \in Errors : AttemptRaise(e)
  \/ CancelledWaiting
  \/ BackoffDone

SpecRetry == InitIngest /\ [][NextRetry]_vars

\* every await of the function ends: the limiter, the attempt (by its
\* timeout) and the backoff sleep
SpecRetryFair == SpecRetry /\ WF_vars(LimiterWait \/ AttemptReturn \/ BackoffDone)

\* ================================================================== claims
Pairs == {EdgeKey(x, y) : x \in NodeIds, y \in NodeIds} \ {{x} : x \in NodeIds}

\* the completed add_or_update_edge calls on the unordered pair k
DoneOn(k) == {t \in CallIds : /\ calls[t].pc = "done" /\ calls[t].kind = "edge"
                              /\ EdgeKey(calls[t].n1, calls[t].n2) = k}

RECURSIVE SumWeights(_)
SumWeights(D) ==
  IF D = {} THEN 0
  ELSE LET t == CHOOSE x \in D : TRUE
       IN FinalWeight(calls[t].sim, calls[t].m1, calls[t].m2) + SumWeights(D \ {t})

MaxSim(D) == CHOOSE s \in {calls[t].sim : t \in D} : \A t \in D : calls[t].sim <= s

\* C1: under every interleaving of add_or_update_edge calls on one unordered
\* pair, issued as (a,b) or as (b,a), the edge counts every completed call,
\* its cumulative_weight is the sum of the calls' weights and its
\* max_similarity is the largest similarity: no update is lost.
C1_NoLostUpdate ==
  \A k \in Pairs :
    LET D == DoneOn(k)
    IN IF D = {}
       THEN k \notin DOMAIN graph.edges
       ELSE /\ k \in DOMAIN graph.edges
            /\ graph.edges[k].shared_concepts_count = Cardinality(D)
            /\ graph.edges[k].cumulative_weight = SumWeights(D)
            /\ graph.edges[k].max_similarity = MaxSim(D)

\* two calls on the pair, one as (a,b) and one as (b,a), with different
\* similarities, have both completed
C1_Witness ==
  \E t \in CallIds, u \in CallIds :
    /\ calls[t].pc = "done" /\ calls[u].pc = "done"
    /\ calls[t].kind = "edge" /\ calls[u].kind = "edge"
    /\ calls[t].n1 = "u1" /\ calls[t].n2 = "u2"
    /\ calls[u].n1 = "u2" /\ calls[u].n2 = "u1"
    /\ calls[t].sim # calls[u].sim
    /\ graph.edges[{"u1", "u2"}].shared_concepts_count = 2

\* C2: when a loadable primary or backup existed at the start of a save and
\* the process was terminated during the save's file I/O, the next load
\* returns the last saved graph or the graph being saved, read from a file;
\* it neither fails nor starts a new graph.
C2_CrashSafe ==
  (proc # "down" /\ hist.inSave /\ hist.pre)
    => /\ hist.outcome \in {"primary", "backup"}
       /\ hist.loaded \in {hist.old, hist.new}

\* a crash between the move to .bak and the rename, followed by a load that
\* restored the old snapshot from the backup
C2_Witness ==
  /\ proc = "up" /\ hist.inSave /\ hist.pre
  /\ hist.outcome = "backup"
  /\ ~Exists(hist.lp)
  /\ hist.loaded = hist.old
  /\ hist.old # hist.new

\* C6 as stated: a load that finds no loadable file but at least one
\* existing file ends in the fatal error.
C6_Original ==
  (proc # "down" /\ hist.outcome # "none"
     /\ ~Loadable(hist.lp) /\ ~Loadable(hist.lb)
     /\ (Exists(hist.lp) \/ Exists(hist.lb)))
    => hist.outcome = "fatal"

\* C6 amended: a load that finds an existing unreadable primary and no
\* loadable backup ends in the fatal error; a load that finds no primary and
\* an unreadable backup starts a new empty graph and leaves the backup.
C6_Amended ==
  (proc # "down" /\ hist.outcome # "none" /\ ~Loadable(hist.lp) /\ ~Loadable(hist.lb))
    => /\ Exists(hist.lp) => (hist.outcome = "fatal" /\ proc = "fatal")
       /\ ~Exists(hist.lp) => (hist.outcome = "new" /\ hist.loaded = EmptyGraph)

\* a load has failed on an unreadable primary with an unreadable backup
C6_Witness ==
  /\ proc = "fatal"
  /\ hist.lp = Corrupt /\ hist.lb = Corrupt
  /\ corrupted = Corrupt

\* C7 as stated: while save_graph's file I/O is in progress the lock is not
\* held by save_graph.
C7_Original ==
  savePc \in {"writing", "written", "moved"} => lock # SaveTask

\* C7 amended: save_graph holds the lock from its acquisition until the file
\* I/O has finished; while it does, no add_or_update_edge or
\* add_node_if_not_exists is inside its locked body.
C7_Amended ==
  savePc # "idle"
    => /\ lock = SaveTask
       /\ \A t \in CallIds : calls[t].pc # "locked"

\* an add_or_update_edge on two distinct nodes waits while the temp file is written
C7_Witness ==
  /\ savePc = "writing"
  /\ \E t \in CallIds : /\ calls[t].pc = "wait" /\ calls[t].kind = "edge"
                        /\ calls[t].n1 # calls[t].n2

\* C9: a load that finds no primary and a loadable backup returns the
\* backup's graph and moves the backup to the primary path, from where the
\* next start loads it as the primary.
C9_BackupPromoted ==
  [][(proc # "up" /\ ~Exists(primary) /\ Loadable(backup))
       => /\ proc' = "up"
          /\ graph' = backup.g
          /\ primary' = backup
          /\ LoadGraph(primary', backup', corrupted').outcome = "primary"
          /\ LoadGraph(primary', backup', corrupted').g = backup.g]_vars

\* a load restored a backup whose primary was missing, and no save has run since
C9_Witness ==
  /\ proc = "up" /\ hist.outcome = "backup"
  /\ ~Exists(hist.lp) /\ Loadable(hist.lb)
  /\ primary = hist.lb /\ graph = hist.lb.g
  /\ graph # EmptyGraph

\* C10: a load that finds an existing primary it cannot deserialize renames
\* it to the .corrupted path (the primary path is then empty and the graph
\* does not come from it), and returns the backup's graph when the backup is
\* loadable.
C10_CorruptedSetAside ==
  [][(proc # "up" /\ Exists(primary) /\ ~Loadable(primary))
       => /\ corrupted' = primary
          /\ primary' = Missing
          /\ hist'.outcome # "primary"
          /\ Loadable(backup) => (proc' = "up" /\ graph' = backup.g /\ backup' = backup)]_vars

\* a load set an unreadable primary aside and returned the backup's graph
C10_Witness ==
  /\ proc = "up" /\ hist.outcome = "backup"
  /\ hist.lp = Corrupt /\ Loadable(hist.lb)
  /\ corrupted = Corrupt /\ primary = Missing
  /\ graph = hist.lb.g

\* C3 as stated: the stream holds at most one record per text, and the
\* _add_to_stream calls that have returned for one text returned one id.
C3_Original ==
  /\ \A id1 \in DOMAIN stream, id2 \in DOMAIN stream :
       stream[id1].doc = stream[id2].doc => id1 = id2
  /\ \A i \in Returned, j \in Returned :
       ing[i].text = ing[j].text => ing[i].id = ing[j].id

\* C4 as stated: an _add_to_stream call made after a call for the same text
\* has returned id i returns i, and the text has one record and one node.
C4_Original ==
  \A j \in Returned : \A i \in ing[j].after :
    ing[i].text = ing[j].text
      => /\ ing[j].id = ing[i].id
         /\ StreamIdsByHash(Hash(ing[j].text)) = {ing[i].id}

\* the claim items an extraction run has resolved so far
Resolved(e) ==
  IF ext[e].pc \in {"new", "gen"} THEN {}
  ELSE LET n == Len(ext[e].batch) - Len(ext[e].items)
       IN {ext[e].batch[k] : k \in 1..n} \ {it \in {ext[e].batch[k] : k \in 1..n} : Dropped(it)}

AllResolved == UNION {Resolved(e) : e \in ExtractIds}

\* C5: after any sequential or interleaved Claim Pipeline runs the store holds
\* one fact record per fact text, one modality record per verb text and one
\* claim record per (fact_id, modality_id) pair; every resolved item has
\* exactly one record of each kind under the id its text determines, the
\* claim lookup returns that one id on every call, and a run persists a
\* claim only when no claim with that pair was stored.
C5_Dedup ==
  /\ \A f \in DOMAIN facts, g \in DOMAIN facts : facts[f] = facts[g] => f = g
  /\ \A m \in DOMAIN modalities, n \in DOMAIN modalities :
       modalities[m].original_text = modalities[n].original_text => m = n
  /\ \A a \in DOMAIN assets, b \in DOMAIN assets :
       (assets[a].fact_id = assets[b].fact_id /\ assets[a].modality_id = assets[b].modality_id)
         => a = b
  /\ \A it \in AllResolved :
       /\ {f \in DOMAIN facts : facts[f] = it.sut} = {Hash(it.sut)}
       /\ {m \in DOMAIN modalities : modalities[m].original_text = it.chto_delaet}
            = {Hash(it.chto_delaet)}
       /\ {a \in DOMAIN assets : /\ assets[a].fact_id = Hash(it.sut)
                                 /\ assets[a].modality_id = Hash(it.chto_delaet)}
            = {AssetId(AssetHash(Hash(it.sut), Hash(it.chto_delaet)))}
  /\ \A e \in ExtractIds :
       ext[e].pc \in {"l_asset", "l_fact", "l_query", "l_batch", "l_gather"}
         => ext[e].asset = AssetId(AssetHash(Hash(ext[e].item.sut), Hash(ext[e].item.chto_delaet)))
  /\ DOMAIN assets
       = (DOMAIN StoredAssets)
           \cup {AssetId(AssetHash(Hash(it.sut), Hash(it.chto_delaet))) : it \in AllResolved}

\* two finished runs resolved the same list for the same utterance: the store
\* holds the earlier claim and one record for the list's surviving item
C5_Witness ==
  /\ ext[1].pc = "done" /\ ext[2].pc = "done"
  /\ ext[1].parent = ext[2].parent
  /\ ext[1].batch = ext[2].batch
  /\ Len(ext[1].batch) = 3
  /\ Cardinality(DOMAIN assets) = 2
  /\ Cardinality(DOMAIN facts) = 2

\* C8: the graph lock is held only by a save or by an add_or_update_edge or
\* add_node_if_not_exists call inside its in-memory body; a Graph Linking run
\* that waits on the generative service or on a store lookup has no edge
\* upsert of its own in flight, and its upserts run only while it waits in gather.
C8_LockOnlyForMutation ==
  /\ \A t \in CallIds :
       /\ lock = t => calls[t].pc = "locked"
       /\ calls[t].pc = "locked" => lock = t
       /\ (calls[t].owner = "link" /\ calls[t].pc \in {"wait", "locked", "done"})
            => /\ ext[calls[t].oid].pc = "l_gather"
               /\ t \in ext[calls[t].oid].pending
  /\ \A e \in ExtractIds :
       ext[e].pc \in {"gen", "l_asset", "l_fact", "l_query", "l_batch"}
         => /\ ext[e].pending = {}
            /\ \A t \in CallIds : ~(calls[t].owner = "link" /\ calls[t].oid = e)

\* a linking run waits on its batched claim lookup while another run's edge
\* upsert holds the lock
C8_Witness ==
  \E e \in ExtractIds, t \in CallIds :
    /\ ext[e].pc = "l_batch"
    /\ lock = t /\ calls[t].pc = "locked" /\ calls[t].kind = "edge"
    /\ calls[t].owner = "link" /\ calls[t].oid # e

\* C11: an edge that is structural stays in the graph and stays structural in
\* every later state, whatever the similarity of the later add_or_update_edge
\* calls; the only change of type an edge makes is associative to structural.
C11_TypeMonotone ==
  [][\A k \in DOMAIN graph.edges :
       /\ k \in DOMAIN graph'.edges
       /\ graph.edges[k].type = "structural" => graph'.edges[k].type = "structural"
       /\ graph'.edges[k].type # graph.edges[k].type
            => (graph.edges[k].type = "associative" /\ graph'.edges[k].type = "structural")]_vars

\* a saved snapshot holds the edge as structural after one call; a later call
\* with similarity 0.80 has updated the edge, and it is still structural
C11_Witness ==
  /\ Loadable(primary)
  /\ {"u1", "u2"} \in DOMAIN primary.g.edges
  /\ primary.g.edges[{"u1", "u2"}].type = "structural"
  /\ primary.g.edges[{"u1", "u2"}].shared_concepts_count = 1
  /\ {"u1", "u2"} \in DOMAIN graph.edges
  /\ graph.edges[{"u1", "u2"}].shared_concepts_count = 2
  /\ graph.edges[{"u1", "u2"}].type = "structural"
  /\ \E t \in CallIds : /\ calls[t].pc = "done" /\ calls[t].kind = "edge"
                        /\ calls[t].sim = 80 /\ calls[t].n1 # calls[t].n2

\* the completed add_or_update_edge calls on the pair (u1, u2)
DoneUpserts == DoneOn({"u1", "u2"})

\* C12 as stated: an edge is structural exactly when one of the completed
\* upserts on it had a similarity at or above the structural threshold.
C12_Original ==
  DoneUpserts # {}
    => (graph.edges[{"u1", "u2"}].type = "structural"
          <=> \E t \in DoneUpserts : calls[t].sim >= GRAPH_STRUCTURAL_THRESHOLD)

\* C12 amended: an edge is structural exactly when one of the completed
\* upserts on it had a similarity strictly above the structural threshold; an
\* upsert at exactly the threshold, like one between the two thresholds,
\* creates an associative edge.
C12_Amended ==
  DoneUpserts # {}
    => (graph.edges[{"u1", "u2"}].type = "structural"
          <=> \E t \in DoneUpserts : calls[t].sim > GRAPH_STRUCTURAL_THRESHOLD)

\* one upsert at exactly the structural threshold has created the edge
C12_Witness ==
  /\ DoneUpserts = {1}
  /\ calls[1].sim = GRAPH_STRUCTURAL_THRESHOLD
  /\ graph.edges[{"u1", "u2"}].type = "associative"
  /\ graph.edges[{"u1", "u2"}].shared_concepts_count = 1

\* C13: every add_or_update_edge call Graph Linking creates has a similarity
\* at or above the associative threshold, so every edge's max_similarity is
\* at or above it in every reachable state.
C13_NoEdgeBelowAssociative ==
  /\ \A t \in CallIds :
       (calls[t].owner = "link" /\ calls[t].pc # "new")
         => calls[t].sim >= GRAPH_ASSOCIATIVE_THRESHOLD
  /\ \A e \in ExtractIds : \A n \in ext[e].nbrs :
       100 - n.distance >= GRAPH_ASSOCIATIVE_THRESHOLD
  /\ \A k \in DOMAIN graph.edges : graph.edges[k].max_similarity >= GRAPH_ASSOCIATIVE_THRESHOLD

\* a run over u2 has linked a claim whose only neighbor fact, owned by u1, has
\* similarity 0.70: the run is finished and the graph has no edge
C13_Witness ==
  /\ ext[1].pc = "done" /\ ext[1].parent = "u2" /\ ext[1].batch = <<ItemBad, ItemB, ItemNoFact>>
  /\ ext[2].pc = "new"
  /\ Hash(ItemB.sut) \in DOMAIN facts
  /\ \E a \in DOMAIN assets : /\ assets[a].parent_id = "u1"
                              /\ 100 - Dist(ItemB.sut, facts[assets[a].fact_id]) = 70
  /\ graph.edges = EmptyEdges

\* C14: no edge of the graph joins an utterance id with itself; an
\* add_or_update_edge call with equal ids returns without changing the graph
\* or taking the lock, and Graph Linking creates no call with equal ids.
C14_NoSelfLoop ==
  /\ [](\A k \in DOMAIN graph.edges : Cardinality(k) = 2)
  /\ [](\A t \in CallIds :
          (calls[t].owner = "link" /\ calls[t].pc # "new") => calls[t].n1 # calls[t].n2)
  /\ [][\A t \in CallIds :
          (calls[t].kind = "edge" /\ calls[t].n1 = calls[t].n2
             /\ calls[t].pc = "wait" /\ calls'[t].pc # "wait")
            => (calls'[t].pc = "done" /\ graph' = graph /\ lock' = lock)]_vars

\* a direct call with equal ids has returned, a run over u1 has linked a claim
\* whose neighbor fact belongs to a claim of u1 itself, and the graph has no edge
C14_Witness ==
  /\ \E t \in CallIds : /\ calls[t].pc = "done" /\ calls[t].kind = "edge"
                        /\ calls[t].n1 = calls[t].n2
  /\ \E e \in ExtractIds :
       /\ ext[e].pc = "done" /\ ext[e].parent = "u1" /\ ext[e].batch = <<ItemA>>
       /\ \E a \in DOMAIN assets :
            /\ assets[a].parent_id = "u1" /\ assets[a].fact_id # Hash(ItemA.sut)
            /\ 100 - Dist(ItemA.sut, facts[assets[a].fact_id]) >= GRAPH_ASSOCIATIVE_THRESHOLD
  /\ \A e \in ExtractIds : ext[e].pc = "done" => ext[e].parent = "u1"
  /\ \A e \in ExtractIds : ext[e].pc \in {"new", "done"}
  /\ graph.edges = EmptyEdges

\* C15 as stated: every edge's cumulative_weight is >= 0, for every importance
\* and confidence the Claim Pipeline persists from the generative service's
\* output.
C15_Original ==
  \A k \in DOMAIN graph.edges : graph.edges[k].cumulative_weight >= 0

\* the edges decay ticks and upserts work on
DecayKeys == {{"u1", "u2"}, {"u2", "u3"}}

\* C16: a decay tick leaves the nodes, removes exactly the edges whose weight
\* times the decay factor is below the floor, and gives every other edge that
\* product as its weight, strictly less than before, with its other
\* attributes unchanged; under repeated ticks every edge is eventually removed.
C16_DecayTick ==
  /\ [][(graph' # graph /\ calls' = calls)
          => /\ graph'.nodes = graph.nodes
             /\ DOMAIN graph'.edges \subseteq DOMAIN graph.edges
             /\ \A k \in DOMAIN graph.edges :
                  LET w == graph.edges[k].cumulative_weight
                  IN IF w * GRAPH_DECAY_FACTOR < GRAPH_DECAY_THRESHOLD * 1000
                     THEN k \notin DOMAIN graph'.edges
                     ELSE /\ k \in DOMAIN graph'.edges
                          /\ graph'.edges[k].cumulative_weight < w
                          /\ 1000 * graph'.edges[k].cumulative_weight <= w * GRAPH_DECAY_FACTOR
                          /\ w * GRAPH_DECAY_FACTOR < 1000 * (graph'.edges[k].cumulative_weight + 1)
                          /\ graph'.edges[k].type = graph.edges[k].type
                          /\ graph'.edges[k].max_similarity = graph.edges[k].max_similarity
                          /\ graph'.edges[k].shared_concepts_count
                               = graph.edges[k].shared_concepts_count]_vars
  /\ \A k \in DecayKeys : (k \in DOMAIN graph.edges) ~> (k \notin DOMAIN graph.edges)

\* ticks have removed the edge (u1, u2), which was never reinforced, and have
\* shrunk the weight of the edge (u2, u3), which is still in the graph
C16_Witness ==
  /\ calls[1].pc = "wait"
  /\ {"u1", "u2"} \notin DOMAIN graph.edges
  /\ {"u2", "u3"} \in DOMAIN graph.edges
  /\ graph.edges[{"u2", "u3"}].cumulative_weight < 90 * 3
  /\ graph.edges[{"u2", "u3"}].cumulative_weight >= GRAPH_DECAY_THRESHOLD

\* cumulative_weight is kept in units of 1/WeightScale: the similarity in
\* hundredths times the numerator of weight_modifier, whose divisor is 200
WeightScale == 100 * 200

\* the upsert of the scenario: similarity 0.90, scores (7, 8) and (6, 9), on a new edge
ScenarioUpsertDone ==
  /\ DoneUpserts = {1}
  /\ calls[1].sim = 90
  /\ calls[1].m1 = [importance |-> 7, confidence |-> 8]
  /\ calls[1].m2 = [importance |-> 6, confidence |-> 9]

\* C17 as stated: the upsert of the scenario creates a structural edge with
\* cumulative_weight 0.549.
C17_Original ==
  ScenarioUpsertDone
    => /\ graph.edges[{"u1", "u2"}].type = "structural"
       /\ 1000 * graph.edges[{"u1", "u2"}].cumulative_weight = 549 * WeightScale

\* C17 amended: the upsert of the scenario creates a structural edge with
\* cumulative_weight 0.90 * ((7*8 + 6*9) / 200) = 0.90 * 0.55 = 0.495.
C17_Amended ==
  ScenarioUpsertDone
    => /\ graph.edges[{"u1", "u2"}].type = "structural"
       /\ 1000 * graph.edges[{"u1", "u2"}].cumulative_weight = 495 * WeightScale
       /\ graph.edges[{"u1", "u2"}].max_similarity = 90
       /\ graph.edges[{"u1", "u2"}].shared_concepts_count = 1

\* the upsert of the scenario has created the edge
C17_Witness ==
  /\ ScenarioUpsertDone
  /\ {"u1", "u2"} \in DOMAIN graph.edges
  /\ graph.edges[{"u1", "u2"}].cumulative_weight = 90 * 110

\* the steps of run_cycle
\* a step of run_cycle: more than the history of hits changes
CycleStep == [refl' EXCEPT !.hits = refl.hits] # refl

CycleEnded == refl.pc \in {"skipped", "aborted"}

BlankReply(reply) == reply.status = "ok" /\ Strip(reply.text) = ""

\* C18: a reflection cycle that ends skipped (no utterance with heat at or
\* above the minimum, or an empty cluster) or aborted (both models fail, or
\* the thought is empty or blank) has changed no state: every step of the
\* cycle up to and including the one that ends it leaves the utterances and
\* their heat, the facts, the modalities, the claims and the graph as they
\* are, and has started no ingest, no claim run and no graph call.
C18_EndedCycleChangesNothing ==
  /\ [](CycleEnded => refl.slot = 0 /\ refl.run = 0 /\ refl.id = "")
  /\ [](/\ refl.cycles > 0 /\ refl.pc = "skipped" => DOMAIN refl.cluster = {}
        /\ (refl.pc \notin {"idle", "skipped"}
              /\ \/ BlankReply(refl.primary_reply)
                 \/ BlankReply(refl.backup_reply)
                 \/ refl.backup_reply.status = "error") => refl.pc = "aborted")
  /\ [][(CycleStep /\ refl'.pc \in {"skipped", "aborted", "primary", "backup"})
          => /\ UNCHANGED <<stream, facts, modalities, assets, graph>>
             /\ UNCHANGED <<ing, ext, calls, uuids>>]_vars
  /\ [][(refl'.cycles = refl.cycles + 1 /\ HotRecords(stream, REFLECTION_MIN_ACCESS_COUNT) = {})
          => refl'.pc = "skipped"]_vars

\* a cycle was aborted after both models failed, with hot utterances stored
C18_Witness ==
  /\ refl.pc = "aborted"
  /\ refl.primary_reply.status = "error"
  /\ refl.backup_reply.status = "error"
  /\ DOMAIN refl.cluster # {}
  /\ HotRecords(stream, REFLECTION_MIN_ACCESS_COUNT) # {}

\* C19: in a reflection cycle the backup model is called only after the
\* primary model call has failed, and at most once; a text the backup model
\* returns is the one that is saved; if the backup call fails the cycle ends
\* aborted and makes no further model call.
C19_BackupAfterPrimaryFailure ==
  /\ [](refl.primary_calls <= 1 /\ refl.backup_calls <= 1)
  /\ [](refl.backup_calls = 1 => refl.primary_calls = 1 /\ refl.primary_reply.status = "error")
  /\ [](refl.pc = "backup" <=> (refl.backup_calls = 1 /\ refl.backup_reply.status = "none"))
  /\ []((refl.backup_reply.status = "ok" /\ refl.pc \in {"saving", "extracting", "done"})
          => /\ refl.text = refl.backup_reply.text
             /\ ing[refl.slot].text = refl.backup_reply.text
             /\ refl.pc \in {"extracting", "done"}
                  => /\ refl.id \in DOMAIN stream
                     /\ stream[refl.id].doc = refl.backup_reply.text)
  /\ [](refl.backup_reply.status = "error" => refl.pc = "aborted" /\ refl.run = 0)
  /\ [][refl.backup_reply.status = "error"
          => (refl' = refl \/ (refl'.cycles = refl.cycles + 1 /\ refl'.backup_calls = 0))]_vars

\* the thought of the backup model was saved and the cycle completed
C19_Witness ==
  /\ refl.pc = "done"
  /\ refl.primary_reply.status = "error"
  /\ refl.backup_reply = [status |-> "ok", text |-> "R1"]
  /\ refl.id \in DOMAIN stream
  /\ stream[refl.id].doc = "R1"
  /\ stream[refl.id].role = "internal"

\* some stored utterance loses heat in this step
Cooling == \E id \in DOMAIN stream : stream'[id].access_count < stream[id].access_count

\* C20: in a cycle that obtains a non-empty thought, the thought is first
\* ingested as an utterance with role internal whose initial heat is the
\* rounded median (round half to even) of the heat the cluster members had
\* when the cluster was formed; the Claim Pipeline is started on that
\* utterance only after the ingest has returned; the heat of every cluster
\* member is halved (integer division) only after the pipeline run has ended;
\* no utterance is cooled before the thought is stored.
C20_IngestThenPipelineThenCooling ==
  /\ [][DOMAIN stream' # DOMAIN stream
          => /\ refl.pc = "saving" /\ refl' = refl
             /\ \E id \in DOMAIN stream' \ DOMAIN stream :
                  /\ DOMAIN stream' = DOMAIN stream \cup {id}
                  /\ stream'[id].doc = refl.text
                  /\ stream'[id].role = "internal"
                  /\ stream'[id].access_count = InitialThoughtAc(refl.cluster)
             /\ \A id \in DOMAIN stream : stream'[id] = stream[id]]_vars
  /\ [](refl.pc = "saving" => refl.id = "" /\ refl.run = 0 /\ refl.ac = InitialThoughtAc(refl.cluster))
  /\ [](refl.pc \in {"extracting", "done"}
          => /\ refl.id \in DOMAIN stream
             /\ stream[refl.id].doc = refl.text
             /\ ing[refl.slot].pc = "done"
             /\ ext[refl.run].parent = refl.id)
  /\ [][(refl'.pc = "done" /\ refl.pc # "done")
          => /\ refl.pc = "extracting"
             /\ ext[refl.run].pc = "done"
             /\ DOMAIN stream' = DOMAIN stream
             /\ \A id \in DOMAIN stream :
                  IF id \in DOMAIN refl.cluster
                  THEN stream'[id] = [stream[id] EXCEPT !.access_count = stream[id].access_count \div 2]
                  ELSE stream'[id] = stream[id]]_vars
  /\ [][Cooling => (refl.pc = "extracting" /\ refl'.pc = "done" /\ refl.id \in DOMAIN stream)]_vars

\* a cycle over the cluster with heats 2 and 3 has stored a new thought with
\* heat 2, run the pipeline on it, created a claim of it, and cooled the cluster
C20_Witness ==
  /\ refl.pc = "done"
  /\ refl.text = "R1"
  /\ {refl.cluster[id].access_count : id \in DOMAIN refl.cluster} = {2, 3}
  /\ refl.id \notin DOMAIN refl.cluster
  /\ stream[refl.id].role = "internal"
  /\ refl.ac = 2
  /\ \E a \in DOMAIN assets : assets[a].parent_id = refl.id
  /\ \A id \in DOMAIN refl.cluster : stream[id].access_count <= refl.cluster[id].access_count \div 2 + 1
  /\ \E id \in DOMAIN refl.cluster : stream[id].access_count = 1

\* C22: when the structured response of the generative service is not JSON or
\* is not a list, the run of process(utterance) that received it ends at once:
\* no fact, modality or claim record is created or changed, no graph node or
\* edge and no graph-store call is created or changed, and the other runs are
\* left as they were; such a run has no claim of its batch and no edge upsert.
C22_MalformedChangesNothing ==
  /\ [][\A e \in ExtractIds :
          (ext'[e].response = "malformed" /\ ext[e].response # "malformed")
            => /\ ext[e].pc = "gen" /\ ext'[e].pc = "done"
               /\ UNCHANGED <<facts, modalities, assets, graph, calls, stream>>
               /\ \A o \in ExtractIds \ {e} : ext'[o] = ext[o]]_vars
  /\ [](\A e \in ExtractIds :
          ext[e].response = "malformed"
            => /\ ext[e].pc = "done" /\ ext[e].batch = <<>> /\ ext[e].pending = {}
               /\ \A t \in CallIds : ~(calls[t].owner = "link" /\ calls[t].oid = e))

\* a run over u2 got a malformed response while a run over u1 was linking its
\* claim; the store holds the claim of the other run and nothing of u2
C22_Witness ==
  \E e \in ExtractIds, o \in ExtractIds :
    /\ ext[e].response = "malformed" /\ ext[e].parent = "u2"
    /\ ext[o].response = "list" /\ ext[o].parent = "u1" /\ ext[o].pc = "done"
    /\ Cardinality(DOMAIN assets) = 2
    /\ \A a \in DOMAIN assets : assets[a].parent_id = "u1"

C24_BadClaimDropped ==
  /\ [](/\ \A f \in DOMAIN facts : facts[f] # "" /\ f # Hash("")
        /\ \A m \in DOMAIN modalities : modalities[m].original_text # "" /\ m # Hash("")
        /\ \A a \in DOMAIN assets :
             assets[a].fact_id # Hash("") /\ assets[a].modality_id # Hash("")
        /\ \A e \in ExtractIds :
             ext[e].pc \in {"l_asset", "l_fact", "l_query", "l_batch", "l_gather"}
               => ~Dropped(ext[e].item))
  /\ [][\A e \in ExtractIds :
          /\ (ext[e].pc = "gen" /\ ext'[e].batch = <<ItemBad, ItemB, ItemNoFact>>)
               => /\ ext'[e].pc = "l_asset" /\ ext'[e].item = ItemB
                  /\ ext'[e].items = <<ItemNoFact>>
                  /\ Hash(ItemB.sut) \in DOMAIN facts'
                  /\ Hash(ItemB.chto_delaet) \in DOMAIN modalities'
                  /\ ext'[e].asset = AssetId(AssetHash(Hash(ItemB.sut), Hash(ItemB.chto_delaet)))
                  /\ ext'[e].asset \in DOMAIN assets'
                  /\ (DOMAIN facts') \ (DOMAIN facts) \subseteq {Hash(ItemB.sut)}
                  /\ (DOMAIN modalities') \ (DOMAIN modalities) \subseteq {Hash(ItemB.chto_delaet)}
                  /\ (DOMAIN assets') \ (DOMAIN assets) \subseteq {ext'[e].asset}
          /\ (ext[e].items = <<ItemNoFact>> /\ ext'[e].items # ext[e].items)
               => /\ ext'[e].pc = "done"
                  /\ UNCHANGED <<facts, modalities, assets, graph>>]_vars

\* a run over u2 whose batch had a claim without a verb, a complete claim and
\* a claim without a fact is finished: the complete claim is stored for u2 and
\* the graph has an edge between u2 and u1
C24_Witness ==
  \E e \in ExtractIds :
    /\ ext[e].pc = "done" /\ ext[e].parent = "u2"
    /\ ext[e].batch = <<ItemBad, ItemB, ItemNoFact>>
    /\ AssetId(AssetHash(Hash(ItemB.sut), Hash(ItemB.chto_delaet))) \in DOMAIN assets
    /\ assets[AssetId(AssetHash(Hash(ItemB.sut), Hash(ItemB.chto_delaet)))].parent_id = "u2"
    /\ {"u1", "u2"} \in DOMAIN graph.edges

\* C30: every add_or_update_edge call that a run of process(U) makes, and so
\* every edge it creates or reinforces, has U as one of its two endpoints,
\* also when the claim extracted from U was already stored for another
\* utterance.
C30_Original ==
  \A t \in CallIds :
    (calls[t].owner = "link" /\ calls[t].pc # "new")
      => ext[calls[t].oid].parent \in {calls[t].n1, calls[t].n2}

\* C28: the heat (access_count) of every stored utterance is a non-negative
\* integer in every state. A step changes the heat of a record in three ways
\* only: a record that enters the store gets the initial heat of the ingest
\* that adds it; a memory search raises the heat of a record by exactly 1; the
\* cooling of a reflection cycle replaces the heat h of a member of its
\* cluster by floor(h / 2). An ingest that finds its text already stored, and
\* every step of the Claim Pipeline, of Graph Linking and of the graph store,
\* leave every heat as it was.
C28_HeatChanges ==
  /\ [](\A id \in DOMAIN stream : stream[id].access_count \in Nat)
  /\ [][\A id \in DOMAIN stream' :
          IF id \notin DOMAIN stream
          THEN \E i \in IngestIds : /\ ing[i].pc = "adding" /\ ing[i].id = id
                                    /\ stream'[id].access_count = ing[i].ac
          ELSE \/ stream'[id].access_count = stream[id].access_count
               \/ /\ stream'[id].access_count = stream[id].access_count + 1
                  /\ searches' = searches + 1
               \/ /\ 2 * stream'[id].access_count <= stream[id].access_count
                  /\ stream[id].access_count <= 2 * stream'[id].access_count + 1
                  /\ refl.pc = "extracting" /\ refl'.pc = "done"
                  /\ id \in DOMAIN refl.cluster]_vars
  /\ [][(\/ \E i \in IngestIds : ing[i].pc = "get" /\ ing'[i].pc = "done"
         \/ ext' # ext \/ facts' # facts \/ modalities' # modalities \/ assets' # assets
         \/ graph' # graph \/ lock' # lock)
          => stream' = stream]_vars

\* a stored thought was created with the rounded median heat 2 of its cluster;
\* a record that had heat 3 when the cluster was formed was retrieved by a
\* search and then cooled from 4 to 2
C28_Witness ==
  /\ refl.pc = "done" /\ searches = 1
  /\ refl.id \in DOMAIN stream /\ stream[refl.id].role = "internal"
  /\ stream[refl.id].access_count = 2
  /\ \E id \in DOMAIN refl.cluster :
       refl.cluster[id].access_count = 3 /\ stream[id].access_count = 2

\* C27: the cooling step of a cycle, cooldown(ids) over the ids of its cluster,
\* replaces the heat h of every listed record by floor(h / 2), the h2 with
\* 2 * h2 <= h <= 2 * h2 + 1: heat 0 stays 0, heat 1 becomes 0, heat 5 becomes
\* 2; no heat becomes negative; nothing else of a listed record changes, and
\* the records that are not listed and the set of records stay as they were.
C27_CooldownHalves ==
  [][(refl.pc = "extracting" /\ refl'.pc = "done")
       => /\ DOMAIN stream' = DOMAIN stream
          /\ DOMAIN refl.cluster # {}
          /\ \A id \in DOMAIN stream :
               IF id \in DOMAIN refl.cluster
               THEN LET h == stream[id].access_count
                        h2 == stream'[id].access_count
                    IN /\ 2 * h2 <= h /\ h <= 2 * h2 + 1
                       /\ h2 >= 0
                       /\ (h = 0 => h2 = 0) /\ (h = 1 => h2 = 0) /\ (h = 5 => h2 = 2)
                       /\ stream'[id] = [stream[id] EXCEPT !.access_count = h2]
               ELSE stream'[id] = stream[id]]_vars

\* a cycle has cooled its cluster of two: the record that had heat 5 has heat
\* 2, and the stored thought, which was not listed, kept its heat
C27_Witness ==
  /\ refl.pc = "done" /\ searches = 1
  /\ DOMAIN refl.cluster = {"u1", "u2"}
  /\ refl.cluster["u1"].access_count = 4 /\ refl.cluster["u2"].access_count = 5
  /\ stream["u1"].access_count = 2 /\ stream["u2"].access_count = 2
  /\ refl.id \in DOMAIN stream /\ refl.id \notin DOMAIN refl.cluster
  /\ stream[refl.id].access_count = refl.ac /\ refl.ac = 4

\* C29: for every min_heat, a record that sample_weighted_seed(min_heat)
\* returns has heat >= min_heat, and the call returns none exactly when no
\* stored record has heat >= min_heat.
C29_Original ==
  op.name = "seed"
    => /\ \A id \in op.result.ids : stream[id].access_count >= op.min
       /\ (op.result.kind = "none")
            <=> ({id \in DOMAIN stream : stream[id].access_count >= op.min} = {})

\* C29 as the code has it: a record that get_random_hot_record_as_seed returns
\* has heat >= max(min_heat, 1); when the store query raises the call returns
\* none; otherwise it returns none exactly when no stored record has heat
\* >= max(min_heat, 1), so a record of heat 0 is never returned.
C29_Amended ==
  op.name = "seed"
    => LET m == IF op.min <= 0 THEN 1 ELSE op.min
       IN /\ op.result.kind \in {"none", "record"}
          /\ \A id \in op.result.ids :
               /\ id \in DOMAIN stream
               /\ stream[id].access_count >= m /\ stream[id].access_count >= op.min
          /\ op.result.kind = "record" <=> Cardinality(op.result.ids) = 1
          /\ op.raises => op.result.kind = "none"
          /\ ~op.raises
               => ((op.result.kind = "none")
                     <=> ({id \in DOMAIN stream : stream[id].access_count >= m} = {}))

\* every stored record has heat 0 and the call with min_heat 0 returned none
\* without a storage error
C29_Witness ==
  /\ op.name = "seed" /\ op.min = 0 /\ ~op.raises /\ op.result.kind = "none"
  /\ DOMAIN stream # {}
  /\ \A id \in DOMAIN stream : stream[id].access_count = 0

\* C25: no Canonical Store operation ends with a storage error handed to its
\* caller: ingest_utterance, get_or_create_fact, get_or_create_modality, the
\* heat-hit update of the memory search, cooldown, sample_weighted_seed and the
\* cluster retrieval catch the error and return "not found" or an empty result.
C25_Original ==
  /\ op.result.kind # "raised"
  /\ \A i \in IngestIds : ing[i].pc # "raised"

\* the states run_cycle can be in right after the scheduler started it on the
\* store st as its n-th cycle
CycleStarts(st, n) ==
  {[NoReflection EXCEPT !.pc = "skipped", !.cycles = n]}
    \cup {[NoReflection EXCEPT !.pc = "primary", !.cluster = ClusterOf(st, S),
                               !.hits = [id \in S |-> 0],
                               !.primary_calls = 1, !.cycles = n] :
            S \in UNION {Nearest(st, st[seed].doc, REFLECTION_CLUSTER_SIZE, AllRoles) :
                           seed \in HotRecords(st, REFLECTION_MIN_ACCESS_COUNT)}}

\* C21: run_cycle never ends with an exception. A cycle whose save_reflection
\* raised ends as a failed cycle in a step that changes nothing else; a cycle
\* whose Claim Pipeline raised is not ended by it and goes on to the cooling;
\* a cycle whose seed or cluster query or whose two model calls raised ends
\* skipped or aborted. After a cycle has ended in any way the scheduler can
\* start the next one, and the cycle it starts is one that a first cycle on
\* the same store could start: it keeps nothing of the cycle before it.
C21_CycleNeverRaises ==
  /\ [](refl.pc \in {"idle", "primary", "backup", "saving", "extracting",
                     "skipped", "aborted", "failed", "done"})
  /\ [][(refl.pc = "saving" /\ ing[refl.slot].pc = "raised" /\ refl' # refl)
         => /\ refl' = [refl EXCEPT !.pc = "failed"]
            /\ UNCHANGED <<stream, facts, modalities, assets, graph, ext, ing, handle>>]_vars
  /\ [][(refl.pc = "extracting" /\ ext[refl.run].response # "raised"
          /\ ext'[refl.run].response = "raised")
         => (refl' = refl /\ ext'[refl.run].pc = "done")]_vars
  /\ [](refl.pc = "extracting" /\ ext[refl.run].pc = "done" => ENABLED ReflectionCooldown)
  /\ []((refl.pc \in {"skipped", "aborted", "failed", "done"} /\ refl.cycles < MaxTicks)
          => ENABLED Tick)
  /\ [][refl'.cycles # refl.cycles
         => /\ refl.pc \in {"idle", "skipped", "aborted", "failed", "done"}
            /\ refl' \in CycleStarts(stream, refl.cycles + 1)
            /\ UNCHANGED <<stream, facts, modalities, assets, graph, ext, ing, handle>>]_vars

\* the save_reflection of the first cycle raised, and the second cycle has
\* saved its thought, run the Claim Pipeline and cooled its cluster
C21_Witness ==
  /\ refl.cycles = 2 /\ refl.pc = "done"
  /\ \E i \in IngestIds : ing[i].pc = "raised"
  /\ refl.id \in DOMAIN stream /\ stream[refl.id].role = "internal"
  /\ ext[refl.run].pc = "done"

\* an extraction run ends by a failure: an exception or a malformed response
FailsIn(e) ==
  /\ ext'[e].response \in {"raised", "malformed"}
  /\ ext[e].response \notin {"raised", "malformed"}

\* C26: a step in which the claim extraction of the user's or of the
\* assistant's utterance fails sends no error reply and leaves the user's
\* chat session in place, and it leaves the extraction of the other utterance
\* as it is unless that one starts or fails in the same step; from the start of the
\* extractions the handler goes on only to its normal end, with the reply
\* sent, the session kept and no error reply, and it ends only when both
\* extractions are finished; every extraction that waits for the generative
\* service finishes, and a handler that waits for the two extractions returns.
C26_ExtractionFailureIsSilent ==
  /\ [][\A e \in ExtractIds :
          FailsIn(e)
            => /\ chat'.error = chat.error /\ chat'.session = chat.session
               /\ chat'.pc = "extracting"
               /\ \A o \in ExtractIds \ {e} :
                    \/ ext'[o] = ext[o]
                    \/ FailsIn(o)
                    \/ ext[o].pc = "new" /\ ext'[o].pc = "gen"]_vars
  /\ [](chat.pc \in {"extracting", "done"}
          => (chat.session /\ ~chat.error /\ chat.answered))
  /\ [][chat.pc = "extracting" => chat'.pc \in {"extracting", "done"}]_vars
  /\ [](chat.pc = "done" => (ext[chat.user_run].pc = "done" /\ ext[chat.bot_run].pc = "done"))
  /\ \A e \in ExtractIds : (ext[e].pc = "gen") ~> (ext[e].pc = "done")
  /\ (chat.pc = "extracting") ~> (chat.pc = "done")

\* the handler has returned with the session in place and no error reply:
\* the extraction of the user's utterance raised, the extraction of the
\* assistant's utterance stored a claim for it
C26_Witness ==
  /\ chat.pc = "done" /\ chat.session /\ ~chat.error /\ chat.answered
  /\ ext[chat.user_run].response = "raised"
  /\ ext[chat.bot_run].response = "list"
  /\ ext[chat.bot_run].parent # ext[chat.user_run].parent
  /\ \E a \in DOMAIN assets : assets[a].parent_id = ext[chat.bot_run].parent

\* C31: in every state in which the application runs and no _add_to_stream is
\* in progress, also after a restart that loads the last snapshot, the graph
\* has exactly the ids of the stream collection as nodes, each with the role
\* and the timestamp of its record (the statement as the specification makes it)
C31_Original ==
  (proc = "up" /\ \A i \in IngestIds : ing[i].pc \notin {"get", "adding", "noding"})
    => /\ DOMAIN graph.nodes = DOMAIN stream
       /\ \A n \in DOMAIN graph.nodes :
            graph.nodes[n] = [role |-> stream[n].role, timestamp |-> stream[n].timestamp]

\* C32: from the moment save_graph holds the lock until it releases it, no
\* add_or_update_edge or add_node_if_not_exists changes the graph and the lock
\* stays with the save, so no other save can start; the file renamed to the
\* primary path holds the graph as it was when the save acquired the lock
C32_SaveSeesOneMoment ==
  /\ [](savePc = "renamed" => primary = File(hist.new))
  /\ [][(savePc # "idle" /\ proc' = "up") => (graph' = graph /\ lock = SaveTask)]_vars

\* a save has renamed its file while an upsert issued during the save waits for the lock
C32_Witness ==
  /\ savePc = "renamed"
  /\ primary = File(graph)
  /\ \E t \in CallIds : calls[t].pc = "wait" /\ calls[t].kind = "edge"
  /\ \E t \in CallIds : calls[t].pc = "done"

\* C34: the add_or_update_edge tasks one pass of _rebuild_graph_for_asset
\* creates are for pairwise different pairs of utterances (the statement as
\* the docstring of _rebuild_graph_for_asset makes it)
C34_Original ==
  \A e \in ExtractIds :
    ext[e].pc = "l_gather" =>
      \A t \in ext[e].pending, u \in ext[e].pending :
        t # u => EdgeKey(calls[t].n1, calls[t].n2) # EdgeKey(calls[u].n1, calls[u].n2)

\* C33: an add_or_update_edge task created by a pass of
\* _rebuild_graph_for_asset that has not completed belongs to a run that is
\* still waiting in that pass's gather: once the pass has returned or raised,
\* none of its tasks is pending or can still change the graph
C33_TasksDoneBeforePassEnds ==
  \A t \in CallIds :
    (calls[t].owner = "link" /\ calls[t].pc \in {"wait", "locked"})
      => /\ ext[calls[t].oid].pc = "l_gather"
         /\ t \in ext[calls[t].oid].pending

\* a pass that created two tasks has returned and both upserts are in the
\* graph, and another run ended in a pass that raised
C33_Witness ==
  /\ \A t \in CallIds : calls[t].owner # "link"
  /\ HasEdge(graph, "u1", "u2")
  /\ graph.edges[EdgeKey("u1", "u2")].shared_concepts_count >= 2
  /\ \E e \in ExtractIds : ext[e].pc = "done" /\ ext[e].response = "list"
  /\ \E e \in ExtractIds : ext[e].pc = "done" /\ ext[e].response = "store raised"

\* C35: when a reflection cycle cools its cluster, every member is left with
\* floor((access_count read when the cluster was formed + hits of
\* search_and_update on it since then) / 2): a hit that arrives while the
\* cycle waits for the generative service is not lost
C35_HitDuringCycleNotLost ==
  [][(refl.pc # "done" /\ refl'.pc = "done" /\ stream' # stream)
       => \A id \in DOMAIN refl.cluster :
            stream'[id].access_count = (refl.cluster[id].access_count + refl.hits[id]) \div 2]_vars

\* a cycle has cooled a member that was hit while the cycle was in flight, and
\* halving the access count read at clustering would have given less
C35_Witness ==
  /\ refl.pc = "done"
  /\ \E id \in DOMAIN refl.cluster :
       /\ refl.hits[id] = 1
       /\ stream[id].access_count = (refl.cluster[id].access_count + 1) \div 2
       /\ stream[id].access_count > refl.cluster[id].access_count \div 2

\* the sum of the access counts of the records S of the stream st
RECURSIVE SumHeat(_, _)
SumHeat(st, S) ==
  IF S = {} THEN 0
  ELSE LET id == CHOOSE x \in S : TRUE
       IN st[id].access_count + SumHeat(st, S \ {id})

C36_TypeFollowsMaxSimilarity ==
  \A k \in DOMAIN graph.edges :
    /\ graph.edges[k].type \in {"structural", "associative"}
    /\ graph.edges[k].type = "structural"
         <=> graph.edges[k].max_similarity > GRAPH_STRUCTURAL_THRESHOLD

\* an edge created structural has been updated with a similarity at the
\* threshold, and both calls are done
C36_Witness ==
  /\ calls[1].pc = "done" /\ calls[2].pc = "done"
  /\ calls[1].sim = 90 /\ calls[2].sim = 85
  /\ graph.edges[EdgeKey("u1", "u2")].type = "structural"
  /\ graph.edges[EdgeKey("u1", "u2")].shared_concepts_count = 2

\* C37: when save_graph has renamed its file without an error, a load from
\* the path returns the graph the save started with, nodes, edges and edge
\* attributes, and leaves the files alone; the move of the save put the
\* primary of before the save at the .bak path, and the rest of the save
\* leaves the .bak path alone
C37_SaveThenLoad ==
  /\ [](savePc = "renamed" =>
          LET r == LoadGraph(primary, backup, corrupted)
          IN /\ r.outcome = "primary"
             /\ r.g = hist.new /\ r.g = graph
             /\ r.primary = primary /\ r.backup = backup)
  /\ [][(savePc = "written" /\ savePc' = "moved" /\ Exists(primary)) => backup' = primary]_vars
  /\ [][(savePc \in {"locked", "writing"} /\ savePc' # "idle" /\ proc' = "up")
          => (primary' = primary /\ backup' = backup)]_vars
  /\ [][(savePc \in {"moved", "renamed"} /\ proc' = "up") => backup' = backup]_vars

\* a save over an earlier snapshot is complete: the graph has a node with
\* attributes and an edge added since, the primary loads to it and the .bak
\* file is the earlier snapshot
C37_Witness ==
  /\ savePc = "renamed"
  /\ backup = File(SnapB)
  /\ graph.nodes["u1"].role = "user"
  /\ HasEdge(graph, "u1", "u2")
  /\ LoadGraph(primary, backup, corrupted).g = graph

C40_Original ==
  [][(proc = "up" /\ proc' = "stopped") => primary' = File(graph)]_vars

====
